---- MODULE Spec2Model ----
(***************************************************************************)
(* InvoiceAssistant: the two cost-governed serverless handlers             *)
(* (netlify/functions/claude-extract.js, netlify/functions/claude-score.js)*)
(* the browser-side service that calls them (src/services/claudeService.js)*)
(* and the rule-based validation (src/services/validationService.js).      *)
(*                                                                         *)
(* Money is kept in ledger units of 10^-7 USD, so that the per-token price *)
(* of every pricing table is a whole number: 0.80 USD per million tokens   *)
(* is 8 units per token, 1.00 USD is 10 * Million units.  The code works   *)
(* in IEEE doubles; the model is the exact-arithmetic reading of the same  *)
(* expressions.                                                            *)
(*                                                                         *)
(* One JavaScript module instance is modelled (no cold start): the handler *)
(* code between two awaits runs without interleaving, so each action is    *)
(* one such run-to-completion segment.                                     *)
(***************************************************************************)
EXTENDS Integers, Sequences, FiniteSets, TLC

\* ------------------------------------------------------------------------
\* Bounds of the model
\* ------------------------------------------------------------------------
MaxRuns == 2
MaxDay == 1

Runs == 1..MaxRuns

\* token counts <<input_tokens, output_tokens>> the upstream API may report
\* (message.usage): 0.75 USD of extraction or 0.20 USD of scoring, and
\* 3.75 USD of extraction or 1.00 USD of scoring
UsageChoices == {<<200000, 10000>>, <<50000, 240000>>}

\* ------------------------------------------------------------------------
\* Program constants
\* ------------------------------------------------------------------------
Million == 1000000

\* const DAILY_COST_LIMIT = 1.0;   (1.00 USD in ledger units)
DAILY_COST_LIMIT == 10 * Million

\* the two handlers, each its own module with its own dailyCostTracker
Fns == {"extract", "score"}

\* price per token in ledger units (USD per million tokens, times ten)
inputCostPer1M(f) == IF f = "extract" THEN 30 ELSE 8
outputCostPer1M(f) == IF f = "extract" THEN 150 ELSE 40

\* mutant: the scoring prices for both handlers
calculateCost_ScoringPrices(f, inputTokens, outputTokens) ==
  inputTokens * inputCostPer1M("score") + outputTokens * outputCostPer1M("score")

\* calculateCost(inputTokens, outputTokens) of handler f
calculateCost(f, inputTokens, outputTokens) ==
  LET inputCost == inputTokens * inputCostPer1M(f)
      outputCost == outputTokens * outputCostPer1M(f)
  IN inputCost + outputCost

Max(a, b) == IF a >= b THEN a ELSE b

VARIABLES
  today,      \* the current UTC calendar day, new Date().toISOString().split('T')[0]
  tracker,    \* tracker[f]: the module-level dailyCostTracker of handler f
  run,        \* run[r]: one pipeline run or raw request, see IdleRun
  cross,      \* cross[f]: history of how ledger f reached its limit, see NoCross
  vpc,        \* validation harness: "input", "validated"
  vdoc,       \* validation harness: the ExtractedFieldSet under validation
  venv,       \* validation harness: clock, time zone and engine of the evaluation
  vres,       \* validation harness: the result of validateDocumentData
  vsum,       \* validation harness: the result of getValidationSummary
  vagain,     \* validation harness: a later evaluation of the same input
  badge       \* ConfidenceBadge: the confidence given and what is displayed

pipeVars == <<today, tracker, run, cross>>
valVars == <<vpc, vdoc, venv, vres, vsum, vagain>>
vars == <<today, tracker, run, cross, vpc, vdoc, venv, vres, vsum, vagain, badge>>

\* ------------------------------------------------------------------------
\* JavaScript values of the extracted fields
\*   null / undefined  -> Null
\*   string            -> Str(s), s a sequence of one-character strings
\*   number            -> Num(n), n the number in hundredths (two decimals)
\* ------------------------------------------------------------------------
Null == [t |-> "null", s |-> <<>>, n |-> 0]
Str(s) == [t |-> "str", s |-> s, n |-> 0]
Num(n) == [t |-> "num", s |-> <<>>, n |-> n]

Digits == <<"0", "1", "2", "3", "4", "5", "6", "7", "8", "9">>
IsDigit(c) == \E i \in 1..10 : Digits[i] = c
DigitVal(c) == (CHOOSE i \in 1..10 : Digits[i] = c) - 1

\* decimal digits of a natural number
RECURSIVE NatToString(_)
NatToString(n) ==
  IF n < 10 THEN <<Digits[n + 1]>>
  ELSE NatToString(n \div 10) \o <<Digits[(n % 10) + 1]>>

\* Number.prototype.toString of a number given in hundredths
NumToString(n) ==
  LET a == IF n < 0 THEN 0 - n ELSE n
      sign == IF n < 0 THEN <<"-">> ELSE <<>>
      whole == NatToString(a \div 100)
      frac == a % 100
  IN sign \o whole \o
       (IF frac = 0 THEN <<>>
        ELSE IF frac % 10 = 0 THEN <<".", Digits[(frac \div 10) + 1]>>
        ELSE <<".", Digits[(frac \div 10) + 1], Digits[(frac % 10) + 1]>>)

\* Number.prototype.toFixed(2) of a number given in hundredths
toFixed2(n) ==
  LET a == IF n < 0 THEN 0 - n ELSE n
      sign == IF n < 0 THEN <<"-">> ELSE <<>>
  IN sign \o NatToString(a \div 100)
       \o <<".", Digits[((a % 100) \div 10) + 1], Digits[(a % 10) + 1]>>

\* !v
Falsy(v) ==
  \/ v.t = "null"
  \/ v.t = "str" /\ v.s = <<>>
  \/ v.t = "num" /\ v.n = 0

\* a || b
OrElse(a, b) == IF Falsy(a) THEN b ELSE a

\* String(v) for a string or a number
ToStr(v) == IF v.t = "num" THEN NumToString(v.n) ELSE v.s

\* the characters \s matches that the inputs use
WhitespaceChars == {" ", "\t"}

\* String.prototype.trim
RECURSIVE TrimLeft(_)
TrimLeft(s) ==
  IF s # <<>> /\ Head(s) \in WhitespaceChars THEN TrimLeft(Tail(s)) ELSE s

RECURSIVE TrimRight(_)
TrimRight(s) ==
  IF s # <<>> /\ s[Len(s)] \in WhitespaceChars
  THEN TrimRight(SubSeq(s, 1, Len(s) - 1)) ELSE s

Trim(s) == TrimRight(TrimLeft(s))

\* String.prototype.toUpperCase on the letters the inputs use
Lower == <<"a", "b", "c", "d", "e", "f", "g", "h", "i", "j", "k", "l", "m",
           "n", "o", "p", "q", "r", "s", "t", "u", "v", "w", "x", "y", "z">>
Upper == <<"A", "B", "C", "D", "E", "F", "G", "H", "I", "J", "K", "L", "M",
           "N", "O", "P", "Q", "R", "S", "T", "U", "V", "W", "X", "Y", "Z">>
UpperChar(c) ==
  IF \E i \in 1..Len(Lower) : Lower[i] = c
  THEN Upper[CHOOSE i \in 1..Len(Lower) : Lower[i] = c] ELSE c
toUpperCase(s) == [i \in 1..Len(s) |-> UpperChar(s[i])]

\* ------------------------------------------------------------------------
\* validationService.js: the field validators.  A result is a record with
\* the fields the code sets: value, valid and, when set, error, warning,
\* numericValue.  Messages are sequences of text pieces.
\* ------------------------------------------------------------------------
validateVendorName(vendorName) ==
  IF Falsy(vendorName)
  THEN [value |-> vendorName, valid |-> FALSE,
        error |-> <<"Vendor name is required">>]
  ELSE LET vendorStr == ToStr(vendorName) IN
    IF Len(Trim(vendorStr)) = 0
    THEN [value |-> vendorName, valid |-> FALSE,
          error |-> <<"Vendor name is required">>]
    ELSE IF Len(vendorStr) < 2
    THEN [value |-> vendorName, valid |-> FALSE,
          error |-> <<"Vendor name too short">>]
    ELSE [value |-> Str(vendorStr), valid |-> TRUE]

validateReferenceNumber(referenceNumber) ==
  IF Falsy(referenceNumber)
     \/ (referenceNumber.t = "str" /\ Len(Trim(referenceNumber.s)) = 0)
  THEN [value |-> referenceNumber, valid |-> FALSE,
        error |-> <<"Reference number is required">>]
  ELSE LET refStr == IF referenceNumber.t = "num"
                     THEN Str(NumToString(referenceNumber.n))
                     ELSE referenceNumber
       IN [value |-> refStr, valid |-> TRUE]

\* /^\d{4}-\d{2}-\d{2}$/.test(s)
MatchesDateRegex(s) ==
  /\ Len(s) = 10
  /\ \A i \in {1, 2, 3, 4, 6, 7, 9, 10} : IsDigit(s[i])
  /\ s[5] = "-" /\ s[8] = "-"

IsLeapYear(y) == (y % 4 = 0 /\ y % 100 # 0) \/ y % 400 = 0

DaysInMonth(y, m) ==
  IF m = 2 THEN (IF IsLeapYear(y) THEN 29 ELSE 28)
  ELSE IF m \in {4, 6, 9, 11} THEN 30 ELSE 31

\* a calendar date whose day may run past the end of its month, as the
\* Date constructor normalises it
NormalizeDate(y, m, d) ==
  IF d <= DaysInMonth(y, m) THEN [y |-> y, m |-> m, d |-> d]
  ELSE IF m = 12 THEN [y |-> y + 1, m |-> 1, d |-> d - DaysInMonth(y, m)]
  ELSE [y |-> y, m |-> m + 1, d |-> d - DaysInMonth(y, m)]

\* calendar dates ordered as numbers
DateKey(dt) == dt.y * 10000 + dt.m * 100 + dt.d

\* the script engines differ on a date-only string whose day is 29..31 but
\* past the end of the month: "lenient" rolls it over into the next month,
\* "strict" yields an Invalid Date
Engines == {"lenient", "strict"}

\* new Date(v): [nan |-> TRUE] is an Invalid Date.  Strings that are not of
\* the date-only form are the ones no engine parses.
NewDate(v, engine) ==
  IF v.t = "str" /\ MatchesDateRegex(v.s)
  THEN LET s == v.s
           y == DigitVal(s[1]) * 1000 + DigitVal(s[2]) * 100
                  + DigitVal(s[3]) * 10 + DigitVal(s[4])
           m == DigitVal(s[6]) * 10 + DigitVal(s[7])
           d == DigitVal(s[9]) * 10 + DigitVal(s[10])
       IN IF m < 1 \/ m > 12 \/ d < 1 \/ d > 31
          THEN [nan |-> TRUE, key |-> 0]
          ELSE IF d > DaysInMonth(y, m) /\ engine = "strict"
          THEN [nan |-> TRUE, key |-> 0]
          ELSE [nan |-> FALSE, key |-> DateKey(NormalizeDate(y, m, d))]
  ELSE IF v.t = "num"
  THEN [nan |-> FALSE, key |-> 19700101]   \* a small millisecond count
  ELSE [nan |-> TRUE, key |-> 0]

\* date < other, false when either is an Invalid Date
DateLess(a, b) == ~a.nan /\ ~b.nan /\ a.key < b.key

\* mutant: a date outside the typical range is reported invalid
validateDate_RangeInvalid(dateString, fieldName, env) ==
  IF Falsy(dateString)
  THEN [value |-> dateString, valid |-> FALSE,
        error |-> <<fieldName, " is required">>]
  ELSE IF ~MatchesDateRegex(ToStr(dateString))
  THEN [value |-> dateString, valid |-> FALSE,
        error |-> <<fieldName, " must be in YYYY-MM-DD format">>]
  ELSE LET date == NewDate(dateString, env.engine) IN
    IF date.nan
    THEN [value |-> dateString, valid |-> FALSE,
          error |-> <<fieldName, " is not a valid date">>]
    ELSE LET now == env.now
             fiveYearsAgo == DateKey(NormalizeDate(now.y - 5, now.m, now.d))
             twoYearsFromNow == DateKey(NormalizeDate(now.y + 2, now.m, now.d))
         IN IF date.key < fiveYearsAgo \/ date.key > twoYearsFromNow
            THEN [value |-> dateString, valid |-> FALSE,
                  warning |-> <<fieldName,
                     " is outside typical range (5 years ago to 2 years from now)">>]
            ELSE [value |-> dateString, valid |-> TRUE]

\* env: the surroundings of one evaluation:
\*   now    - new Date() as the local calendar date [y, m, d]
\*   tz     - sign of the local UTC offset (-1 west, 0 UTC, 1 east)
\*   engine - the script engine
\* new Date(y, m, d) is local midnight, new Date("YYYY-MM-DD") is UTC
\* midnight: west of UTC the local midnight of a day lies after its UTC
\* midnight, east of UTC before it.
validateDate(dateString, fieldName, env) ==
  IF Falsy(dateString)
  THEN [value |-> dateString, valid |-> FALSE,
        error |-> <<fieldName, " is required">>]
  ELSE IF ~MatchesDateRegex(ToStr(dateString))
  THEN [value |-> dateString, valid |-> FALSE,
        error |-> <<fieldName, " must be in YYYY-MM-DD format">>]
  ELSE LET date == NewDate(dateString, env.engine) IN
    IF date.nan
    THEN [value |-> dateString, valid |-> FALSE,
          error |-> <<fieldName, " is not a valid date">>]
    ELSE LET now == env.now
             fiveYearsAgo == DateKey(NormalizeDate(now.y - 5, now.m, now.d))
             twoYearsFromNow == DateKey(NormalizeDate(now.y + 2, now.m, now.d))
             before == IF env.tz < 0 THEN date.key <= fiveYearsAgo
                       ELSE date.key < fiveYearsAgo
             after == IF env.tz > 0 THEN date.key >= twoYearsFromNow
                      ELSE date.key > twoYearsFromNow
         IN IF before \/ after
            THEN [value |-> dateString, valid |-> TRUE,
                  warning |-> <<fieldName,
                     " is outside typical range (5 years ago to 2 years from now)">>]
            ELSE [value |-> dateString, valid |-> TRUE]

\* mutant: a due date on the invoice date itself is rejected
validateDueDate_StrictlyAfter(invoiceDate, dueDate, env) ==
  LET dueDateValidation == validateDate(dueDate, "due_date", env) IN
  IF ~dueDateValidation.valid THEN dueDateValidation
  ELSE IF Falsy(invoiceDate)
  THEN [value |-> dueDate, valid |-> TRUE,
        warning |-> <<"Cannot verify due date without invoice date">>]
  ELSE LET invDate == NewDate(invoiceDate, env.engine)
           dDate == NewDate(dueDate, env.engine)
       IN IF DateLess(dDate, invDate) \/ dDate = invDate
          THEN [value |-> dueDate, valid |-> FALSE,
                error |-> <<"Due date must be on or after invoice date">>]
          ELSE [value |-> dueDate, valid |-> TRUE]

validateDueDate(invoiceDate, dueDate, env) ==
  LET dueDateValidation == validateDate(dueDate, "due_date", env) IN
  IF ~dueDateValidation.valid THEN dueDateValidation
  ELSE IF Falsy(invoiceDate)
  THEN [value |-> dueDate, valid |-> TRUE,
        warning |-> <<"Cannot verify due date without invoice date">>]
  ELSE LET invDate == NewDate(invoiceDate, env.engine)
           dDate == NewDate(dueDate, env.engine)
       IN IF DateLess(dDate, invDate)
          THEN [value |-> dueDate, valid |-> FALSE,
                error |-> <<"Due date must be on or after invoice date">>]
          ELSE [value |-> dueDate, valid |-> TRUE]

\* s.replace(/[,$\s]/g, '')
RemoveFormatting(s) ==
  SelectSeq(s, LAMBDA c : c \notin ({",", "$"} \cup WhitespaceChars))

RECURSIVE DigitPrefixLen(_)
DigitPrefixLen(s) ==
  IF s # <<>> /\ IsDigit(Head(s)) THEN 1 + DigitPrefixLen(Tail(s)) ELSE 0

RECURSIVE DigitsToNat(_)
DigitsToNat(s) ==
  IF s = <<>> THEN 0
  ELSE DigitsToNat(SubSeq(s, 1, Len(s) - 1)) * 10 + DigitVal(s[Len(s)])

\* parseFloat(s): the longest numeric prefix (sign, digits, fraction), in
\* hundredths; [nan |-> TRUE] when there is none.  Inputs carry at most two
\* decimals and no exponent.
\* the characters after the il integer digits of u, when a "." leads them
FractionOf(u, il) ==
  IF Len(u) > il /\ u[il + 1] = "." THEN SubSeq(u, il + 2, Len(u)) ELSE <<>>

\* the number read from sign neg, il integer digits of u and fl digits of frac
parseNumber(neg, u, il, frac, fl) ==
  IF il = 0 /\ fl = 0 THEN [nan |-> TRUE, n |-> 0]
  ELSE [nan |-> FALSE,
        n |-> (IF neg THEN -1 ELSE 1)
              * (DigitsToNat(SubSeq(u, 1, il)) * 100
                 + (IF fl >= 1 THEN DigitVal(frac[1]) ELSE 0) * 10
                 + (IF fl >= 2 THEN DigitVal(frac[2]) ELSE 0))]

parseFraction(neg, u, il, frac) ==
  parseNumber(neg, u, il, frac, DigitPrefixLen(frac))

parseDigits(neg, u, il) == parseFraction(neg, u, il, FractionOf(u, il))

parseSigned(t) ==
  IF t # <<>> /\ Head(t) \in {"-", "+"}
  THEN parseDigits(Head(t) = "-", Tail(t), DigitPrefixLen(Tail(t)))
  ELSE parseDigits(FALSE, t, DigitPrefixLen(t))

parseFloat(s) == parseSigned(TrimLeft(s))

\* the reduce callback of validateAmount: one line item's amount
itemAmount(item) ==
  LET itemAmountStr == IF item.amount.t = "num" THEN NumToString(item.amount.n)
                       ELSE IF Falsy(item.amount) THEN <<"0">>
                       ELSE item.amount.s
      cleaned == RemoveFormatting(itemAmountStr)
  IN IF cleaned = <<>> THEN [nan |-> FALSE, n |-> 0] ELSE parseFloat(cleaned)

\* lineItems.reduce((sum, item) => sum + itemAmount, 0); NaN is absorbing
RECURSIVE lineItemTotal(_)
lineItemTotal(lineItems) ==
  IF lineItems = <<>> THEN [nan |-> FALSE, n |-> 0]
  ELSE LET rest == lineItemTotal(SubSeq(lineItems, 1, Len(lineItems) - 1))
           last == itemAmount(lineItems[Len(lineItems)])
       IN IF rest.nan \/ last.nan THEN [nan |-> TRUE, n |-> 0]
          ELSE [nan |-> FALSE, n |-> rest.n + last.n]

Abs(x) == IF x < 0 THEN 0 - x ELSE x

\* whole amounts n (1.00 to 20.00) for which double arithmetic makes
\* Math.abs(n - 0.99 * n) and Math.abs(n - 1.01 * n) greater than n * 0.01:
\* neither 0.99 * n nor the product n * 0.01 is exact in binary, and the
\* rounding of the two decides (1 - 0.99 is 0.010000000000000009)
RoundedBeyond == {1, 2, 4, 7, 8, 13, 14, 15, 16, 17, 19}

\* the amounts the table RoundedBeyond decides
TieTable == {100 * n : n \in 1..20}

\* difference > Math.max(0.01, numericAmount * 0.01) for a total of
\* numericAmount and line items summing to total, both in hundredths.  Where
\* the exact difference and the exact tolerance differ, they differ by at
\* least 0.0001 and the exact comparison is the comparison of the doubles;
\* where they are equal the rounding decides, as tabulated for the amounts of
\* TieTable and a sum that is the double nearest to total.
BeyondTolerance(numericAmount, total) ==
  IF Abs(numericAmount - total) * 100 = Max(100, numericAmount)
  THEN numericAmount \in TieTable /\ (numericAmount \div 100) \in RoundedBeyond
  ELSE Abs(numericAmount - total) * 100 > Max(100, numericAmount)

validateAmount(amount, lineItems) ==
  IF Falsy(amount) /\ ~(amount.t = "num" /\ amount.n = 0)
  THEN [value |-> amount, valid |-> FALSE, error |-> <<"Amount is required">>]
  ELSE LET amountStr == ToStr(amount)
           cleanAmount == RemoveFormatting(amountStr)
           numericAmount == parseFloat(cleanAmount)
       IN
    IF numericAmount.nan
    THEN [value |-> amount, valid |-> FALSE,
          error |-> <<"Amount must be a valid number">>]
    ELSE IF numericAmount.n <= 0
    THEN [value |-> amount, valid |-> FALSE,
          error |-> <<"Amount must be positive">>]
    ELSE LET total == lineItemTotal(lineItems)
             difference == Abs(numericAmount.n - total.n)
         IN
      IF Len(lineItems) > 0 /\ ~total.nan
         /\ BeyondTolerance(numericAmount.n, total.n)
      THEN [value |-> amount, valid |-> TRUE,
            warning |-> <<"Line items sum to ">> \o toFixed2(total.n)
                        \o <<", but total is ">> \o toFixed2(numericAmount.n)
                        \o <<" (difference: ">> \o toFixed2(difference)
                        \o <<")">>]
      ELSE [value |-> amount, valid |-> TRUE,
            numericValue |-> numericAmount.n]

validCurrencies ==
  { <<"U", "S", "D">>, <<"E", "U", "R">>, <<"G", "B", "P">>, <<"C", "A", "D">>,
    <<"A", "U", "D">>, <<"J", "P", "Y">>, <<"C", "N", "Y">>, <<"I", "N", "R">> }

validateCurrency(currency) ==
  IF Falsy(currency)
  THEN [value |-> Str(<<"U", "S", "D">>), valid |-> TRUE,
        warning |-> <<"Currency not specified, assuming USD">>]
  ELSE LET currencyStr == ToStr(currency) IN
    IF toUpperCase(currencyStr) \notin validCurrencies
    THEN [value |-> Str(currencyStr), valid |-> TRUE,
          warning |-> <<"Unusual currency code: ">> \o currencyStr]
    ELSE [value |-> Str(toUpperCase(currencyStr)), valid |-> TRUE]

validateCustomerName(customerName) ==
  IF Falsy(customerName)
  THEN [value |-> customerName, valid |-> TRUE,
        warning |-> <<"Customer name is empty">>]
  ELSE LET nameStr == ToStr(customerName) IN
    IF Len(Trim(nameStr)) = 0
    THEN [value |-> customerName, valid |-> TRUE,
          warning |-> <<"Customer name is empty">>]
    ELSE [value |-> Str(nameStr), valid |-> TRUE]

\* ------------------------------------------------------------------------
\* validateDocumentData(extractedData): a missing key reads as Null
\* ------------------------------------------------------------------------
\* mutant: the legacy key validated on its own, from the legacy input first
validateDocumentData_IndependentAlias(extractedData, env) ==
  LET refNumber == OrElse(extractedData.reference_number,
                          extractedData.invoice_number)
      reference_number == validateReferenceNumber(refNumber)
      transDate == OrElse(extractedData.transaction_date,
                          extractedData.invoice_date)
      transaction_date == validateDate(transDate, "transaction_date", env)
      dueDate == OrElse(extractedData.payment_due_date, extractedData.due_date)
      payment_due_date == validateDueDate(transDate, dueDate, env)
      amount == OrElse(extractedData.total_amount, extractedData.amount_due)
      total_amount == validateAmount(amount, extractedData.line_items)
  IN ("vendor_name" :> validateVendorName(extractedData.vendor_name))
     @@ ("reference_number" :> reference_number)
     @@ ("invoice_number" :>
           validateReferenceNumber(OrElse(extractedData.invoice_number,
                                          extractedData.reference_number)))
     @@ ("transaction_date" :> transaction_date)
     @@ ("invoice_date" :> transaction_date)
     @@ (IF ~Falsy(dueDate)
         THEN ("payment_due_date" :> payment_due_date)
              @@ ("due_date" :> payment_due_date)
         ELSE [k \in {} |-> Null])
     @@ ("total_amount" :> total_amount)
     @@ ("amount_due" :> total_amount)
     @@ ("currency" :> validateCurrency(extractedData.currency))
     @@ (IF ~Falsy(extractedData.customer_name)
         THEN ("customer_name" :> validateCustomerName(extractedData.customer_name))
         ELSE [k \in {} |-> Null])

validateDocumentData(extractedData, env) ==
  LET refNumber == OrElse(extractedData.reference_number,
                          extractedData.invoice_number)
      reference_number == validateReferenceNumber(refNumber)
      transDate == OrElse(extractedData.transaction_date,
                          extractedData.invoice_date)
      transaction_date == validateDate(transDate, "transaction_date", env)
      dueDate == OrElse(extractedData.payment_due_date, extractedData.due_date)
      payment_due_date == validateDueDate(transDate, dueDate, env)
      amount == OrElse(extractedData.total_amount, extractedData.amount_due)
      total_amount == validateAmount(amount, extractedData.line_items)
  IN ("vendor_name" :> validateVendorName(extractedData.vendor_name))
     @@ ("reference_number" :> reference_number)
     @@ ("invoice_number" :> reference_number)
     @@ ("transaction_date" :> transaction_date)
     @@ ("invoice_date" :> transaction_date)
     @@ (IF ~Falsy(dueDate)
         THEN ("payment_due_date" :> payment_due_date)
              @@ ("due_date" :> payment_due_date)
         ELSE [k \in {} |-> Null])
     @@ ("total_amount" :> total_amount)
     @@ ("amount_due" :> total_amount)
     @@ ("currency" :> validateCurrency(extractedData.currency))
     @@ (IF ~Falsy(extractedData.customer_name)
         THEN ("customer_name" :> validateCustomerName(extractedData.customer_name))
         ELSE [k \in {} |-> Null])

\* a property of a result that is set and truthy
Truthy(result, field) == field \in DOMAIN result /\ result[field] # <<>>

\* mutant: a warning also clears allValid
getValidationSummary_WarningsCount(validationResults) ==
  [total |-> Cardinality(DOMAIN validationResults),
   valid |-> Cardinality({k \in DOMAIN validationResults :
                            validationResults[k].valid}),
   warnings |-> Cardinality({k \in DOMAIN validationResults :
                               Truthy(validationResults[k], "warning")}),
   errors |-> Cardinality({k \in DOMAIN validationResults :
                             Truthy(validationResults[k], "error")}),
   allValid |-> \A k \in DOMAIN validationResults :
                   /\ ~Truthy(validationResults[k], "error")
                   /\ ~Truthy(validationResults[k], "warning")]

\* getValidationSummary: the four counters after the forEach over the
\* entries, and allValid
getValidationSummary(validationResults) ==
  [total |-> Cardinality(DOMAIN validationResults),
   valid |-> Cardinality({k \in DOMAIN validationResults :
                            validationResults[k].valid}),
   warnings |-> Cardinality({k \in DOMAIN validationResults :
                               Truthy(validationResults[k], "warning")}),
   errors |-> Cardinality({k \in DOMAIN validationResults :
                             Truthy(validationResults[k], "error")}),
   allValid |-> Cardinality({k \in DOMAIN validationResults :
                               Truthy(validationResults[k], "error")}) = 0]

\* ------------------------------------------------------------------------
\* src/components/ConfidenceBadge.jsx.  A confidence is given in hundredths
\* (8500 is 85, 85 is 0.85), the normalized confidence in ten-thousandths.
\* c / 100 is the double nearest to the quotient, which for 80 and 60 is
\* the double of the literals 0.8 and 0.6; the percentage is left out.
\* ------------------------------------------------------------------------
\* confidence > 1 ? confidence / 100 : confidence
normalizedConfidence(confidence) ==
  IF confidence > 100 THEN confidence ELSE confidence * 100

getColor(score) ==
  IF score >= 8000 THEN "bg-green-100 text-green-800 border-green-200"
  ELSE IF score >= 6000 THEN "bg-amber-100 text-amber-800 border-amber-200"
  ELSE "bg-red-100 text-red-800 border-red-200"

\* mutant: the lower bounds are exclusive
getLabel_Exclusive(score) ==
  IF score > 8000 THEN "High" ELSE IF score > 6000 THEN "Medium" ELSE "Low"

getLabel(score) ==
  IF score >= 8000 THEN "High" ELSE IF score >= 6000 THEN "Medium" ELSE "Low"

\* what the component displays for a confidence
ConfidenceBadge(confidence) ==
  [confidence |-> confidence, rendered |-> TRUE,
   color |-> getColor(normalizedConfidence(confidence)),
   label |-> getLabel(normalizedConfidence(confidence))]

NoBadge == [confidence |-> 0, rendered |-> FALSE, color |-> "", label |-> ""]

\* the confidences given: 0 to 1.2 by hundredths, 1 to 100 by units, and
\* values between units
Confidences ==
  0..120 \cup {100 * c : c \in 1..100} \cup {7999, 8001, 8550, 5999, 6001}

\* ------------------------------------------------------------------------
\* Inputs of the validation harness
\* ------------------------------------------------------------------------
BaseDoc ==
  [vendor_name |-> Str(<<"A", "c", "m", "e">>), reference_number |-> Str(<<"R", "1">>), invoice_number |-> Null,
   transaction_date |-> Str(<<"2", "0", "2", "4", "-", "0", "3", "-", "1", "0">>), invoice_date |-> Null,
   payment_due_date |-> Null, due_date |-> Null,
   total_amount |-> Str(<<"1", "5", ".", "0", "0">>), amount_due |-> Null, line_items |-> <<>>,
   currency |-> Str(<<"U", "S", "D">>), customer_name |-> Null]

VendorChoices ==
  {Null, Str(<<"A">>), Str(<<" ", "A">>), Str(<<" ", " ">>), Str(<<"A", "c", "m", "e">>), Num(700)}

RefChoices == {Null, Str(<<"R", "1">>), Str(<<" ", " ">>), Num(0), Num(4200)}
LegacyRefChoices == {Null, Str(<<"L", "9">>)}

TransDateChoices ==
  {Null, Str(<<"2", "0", "2", "4", "-", "0", "3", "-", "1", "0">>), Str(<<"2", "0", "2", "4", "-", "0", "2", "-", "3", "0">>), Str(<<"2", "0", "2", "4", "-", "1", "3", "-", "0", "1">>), Str(<<"n", "/", "a">>), Str(<<"2", "0", "1", "5", "-", "0", "1", "-", "0", "1">>), Str(<<"2", "0", "3", "0", "-", "0", "6", "-", "0", "1">>),
   Str(<<"2", "0", "1", "9", "-", "0", "6", "-", "1", "5">>)}
LegacyTransDateChoices == {Null, Str(<<"2", "0", "2", "4", "-", "0", "3", "-", "1", "1">>)}
DueDateChoices == {Null, Str(<<"2", "0", "2", "4", "-", "0", "3", "-", "1", "0">>), Str(<<"2", "0", "2", "4", "-", "0", "3", "-", "0", "9">>), Str(<<"2", "0", "2", "4", "-", "0", "4", "-", "3", "1">>), Str(<<"n", "/", "a">>)}
LegacyDueDateChoices == {Null, Str(<<"2", "0", "2", "4", "-", "0", "3", "-", "1", "2">>)}

AmountChoices ==
  {Null, Str(<<"1", "5", ".", "0", "0">>), Str(<<"$", "1", ",", "5", "0", "0", ".", "0", "0">>), Str(<<"2", "0", ".", "0", "0">>), Num(0), Num(1500), Str(<<"a", "b", "c">>), Str(<<"-", "5">>),
   Str(<<" ", "$", "1", "5", ".", "0", "0">>), Str(<<"€", "1", "5", ".", "0", "0">>),
   Str(<<"1", ".", "0", "0">>)}
LegacyAmountChoices == {Null, Str(<<"2", "0", ".", "0", "0">>)}
LineItemChoices ==
  { <<>>,
    <<[amount |-> Str(<<"1", "0", ".", "0", "0">>)], [amount |-> Str(<<"5", ".", "0", "0">>)]>>,
    <<[amount |-> Num(1000)], [amount |-> Str(<<"a", "b", "c">>)]>>,
    <<[amount |-> Str(<<"0", ".", "9", "9">>)]>>,
    <<[amount |-> Str(<<"$", "1", "9", ".", "8", "0">>)]>> }

CurrencyChoices == {Null, Str(<<"U", "S", "D">>), Str(<<"u", "s", "d">>), Str(<<"E", "U", "R">>), Str(<<"x", "y", "z">>)}
CustomerChoices == {Null, Str(<<"B", "o", "b">>), Str(<<" ", " ">>)}

Docs ==
  {[BaseDoc EXCEPT !.vendor_name = v] : v \in VendorChoices}
  \cup {[BaseDoc EXCEPT !.reference_number = a, !.invoice_number = b] :
          a \in RefChoices, b \in LegacyRefChoices}
  \cup {[BaseDoc EXCEPT !.transaction_date = a, !.invoice_date = b,
                        !.payment_due_date = c, !.due_date = d] :
          a \in TransDateChoices, b \in LegacyTransDateChoices,
          c \in DueDateChoices, d \in LegacyDueDateChoices}
  \cup {[BaseDoc EXCEPT !.total_amount = a, !.amount_due = b, !.line_items = l] :
          a \in AmountChoices, b \in LegacyAmountChoices, l \in LineItemChoices}
  \cup {[BaseDoc EXCEPT !.currency = c] : c \in CurrencyChoices}
  \cup {[BaseDoc EXCEPT !.customer_name = c] : c \in CustomerChoices}

NowChoices == {[y |-> 2024, m |-> 6, d |-> 15], [y |-> 2020, m |-> 3, d |-> 10]}
Envs == [now : NowChoices, tz : {-1, 0, 1}, engine : Engines]

EmptyResults == [k \in {} |-> Null]

\* ------------------------------------------------------------------------
\* The validation harness: draw an input, apply validateDocumentData
\* ------------------------------------------------------------------------
\* the clock, time zone and engine of the pipeline runs
PipelineEnv == [now |-> [y |-> 2024, m |-> 6, d |-> 15], tz |-> 0,
                engine |-> "lenient"]

NoSummary == [total |-> 0, valid |-> 0, warnings |-> 0, errors |-> 0,
              allValid |-> TRUE]
NotAgain == [env |-> PipelineEnv, results |-> EmptyResults]

Validate ==
  /\ vpc = "input"
  /\ vres' = validateDocumentData(vdoc, venv)
  /\ vpc' = "validated"
  /\ UNCHANGED <<vdoc, venv, vsum, vagain, pipeVars, badge>>

\* the caller summarises the results it holds
Summarize ==
  /\ vpc = "validated"
  /\ vsum' = getValidationSummary(vres)
  /\ vpc' = "summarized"
  /\ UNCHANGED <<vdoc, venv, vres, vagain, pipeVars, badge>>

\* the same input is validated again when the clock reads now: the time
\* zone and the engine are those of the first evaluation
Revalidate(now) ==
  /\ vpc = "summarized"
  /\ vagain' = [env |-> [venv EXCEPT !.now = now],
                results |-> validateDocumentData(vdoc, [venv EXCEPT !.now = now])]
  /\ vpc' = "revalidated"
  /\ UNCHANGED <<vdoc, venv, vres, vsum, pipeVars, badge>>

\* ------------------------------------------------------------------------
\* netlify/functions/claude-extract.js and claude-score.js: the handlers
\* ------------------------------------------------------------------------
\* mutant: the date moves on but the total is kept
checkAndResetDailyLimit_KeepTotal(t, day) ==
  IF t.date # day THEN [date |-> day, totalCost |-> t.totalCost] ELSE t

checkAndResetDailyLimit(t, day) ==
  IF t.date # day THEN [date |-> day, totalCost |-> 0] ELSE t

\* mutant: denied only once the limit is exceeded
LimitReached_Strict(t) == t.totalCost > DAILY_COST_LIMIT

\* if (dailyCostTracker.totalCost >= DAILY_COST_LIMIT)
LimitReached(t) == t.totalCost >= DAILY_COST_LIMIT

MethodNotAllowed == [statusCode |-> 405, error |-> "Method not allowed"]

LimitResponse(f, t) ==
  IF f = "extract"
  THEN [statusCode |-> 429, error |-> "Daily API cost limit reached",
        message |-> "Daily limit has been reached. Please try again tomorrow.",
        errorType |-> "rate_limit_error",
        dailyLimit |-> DAILY_COST_LIMIT, currentUsage |-> t.totalCost]
  ELSE [statusCode |-> 429, error |-> "Daily API cost limit reached",
        errorType |-> "rate_limit_error",
        dailyLimit |-> DAILY_COST_LIMIT, currentUsage |-> t.totalCost]

MissingPayload(f) ==
  [statusCode |-> 400,
   error |-> IF f = "extract" THEN "Missing imageBase64 in request body"
             ELSE "Missing extractedData in request body"]

\* the catch block: err.status is 0 when the error carries no status
ErrorResponse(err) ==
  IF err.status = 401
  THEN [statusCode |-> 500, error |-> "API authentication failed",
        errorType |-> "authentication_error"]
  ELSE IF err.status = 429
  THEN [statusCode |-> 429, error |-> "API rate limit exceeded",
        errorType |-> "rate_limit_error"]
  ELSE [statusCode |-> 500, error |-> err.message, errorType |-> "server_error"]

SyntaxError == [status |-> 0, message |-> "Unexpected token"]

\* errors client.messages.create rejects with
UpstreamErrors ==
  { [status |-> 401, message |-> "invalid x-api-key"],
    [status |-> 429, message |-> "rate_limit_error"],
    [status |-> 529, message |-> "Overloaded"] }

NoResponse == [statusCode |-> 0]

\* mutant: no admission check
HandlerHead_NoGate(f, method, body, t0, day) ==
  IF method # "POST"
  THEN [tracker |-> t0, response |-> MethodNotAllowed, outcome |-> "none"]
  ELSE LET t == checkAndResetDailyLimit(t0, day) IN
    IF body = "garbage"
    THEN [tracker |-> t, response |-> ErrorResponse(SyntaxError),
          outcome |-> "Allowed"]
    ELSE IF body = "empty"
    THEN [tracker |-> t, response |-> MissingPayload(f), outcome |-> "Allowed"]
    ELSE [tracker |-> t, response |-> NoResponse, outcome |-> "Allowed"]

\* the handler from its entry to its first await (or to its return)
HandlerHead(f, method, body, t0, day) ==
  IF method # "POST"
  THEN [tracker |-> t0, response |-> MethodNotAllowed, outcome |-> "none"]
  ELSE LET t == checkAndResetDailyLimit(t0, day) IN
    IF LimitReached(t)
    THEN [tracker |-> t, response |-> LimitResponse(f, t), outcome |-> "Denied"]
    ELSE IF body = "garbage"
    THEN [tracker |-> t, response |-> ErrorResponse(SyntaxError),
          outcome |-> "Allowed"]
    ELSE IF body = "empty"
    THEN [tracker |-> t, response |-> MissingPayload(f), outcome |-> "Allowed"]
    ELSE [tracker |-> t, response |-> NoResponse, outcome |-> "Allowed"]

\* mutant: the ledger is set to the cost of the call instead of growing by it
HandlerResume_Overwrite(f, inputTokens, outputTokens, text, t0) ==
  LET cost == calculateCost(f, inputTokens, outputTokens)
      t == [t0 EXCEPT !.totalCost = cost]
  IN [tracker |-> t,
      response |->
        IF ~text.parses THEN ErrorResponse(SyntaxError)
        ELSE [statusCode |-> 200, success |-> TRUE, data |-> text.data,
              usage |-> [inputTokens |-> inputTokens,
                         outputTokens |-> outputTokens,
                         cost |-> cost,
                         dailyTotal |-> t.totalCost,
                         dailyLimit |-> DAILY_COST_LIMIT,
                         remainingBudget |->
                            Max(0, DAILY_COST_LIMIT - t.totalCost)]]]

\* mutant: the usage is recorded only when the answer's text parses
HandlerResume_ChargeOnParse(f, inputTokens, outputTokens, text, t0) ==
  LET cost == calculateCost(f, inputTokens, outputTokens)
      t == IF text.parses THEN [t0 EXCEPT !.totalCost = @ + cost] ELSE t0
  IN [tracker |-> t,
      response |->
        IF ~text.parses THEN ErrorResponse(SyntaxError)
        ELSE [statusCode |-> 200, success |-> TRUE, data |-> text.data,
              usage |-> [inputTokens |-> inputTokens,
                         outputTokens |-> outputTokens,
                         cost |-> cost,
                         dailyTotal |-> t.totalCost,
                         dailyLimit |-> DAILY_COST_LIMIT,
                         remainingBudget |->
                            Max(0, DAILY_COST_LIMIT - t.totalCost)]]]

\* the handler after client.messages.create resolved with a message whose
\* usage is (inputTokens, outputTokens) and whose text is text
HandlerResume(f, inputTokens, outputTokens, text, t0) ==
  LET cost == calculateCost(f, inputTokens, outputTokens)
      t == [t0 EXCEPT !.totalCost = @ + cost]
  IN [tracker |-> t,
      response |->
        IF ~text.parses THEN ErrorResponse(SyntaxError)
        ELSE [statusCode |-> 200, success |-> TRUE, data |-> text.data,
              usage |-> [inputTokens |-> inputTokens,
                         outputTokens |-> outputTokens,
                         cost |-> cost,
                         dailyTotal |-> t.totalCost,
                         dailyLimit |-> DAILY_COST_LIMIT,
                         remainingBudget |->
                            Max(0, DAILY_COST_LIMIT - t.totalCost)]]]

\* ------------------------------------------------------------------------
\* What the upstream model may answer
\* ------------------------------------------------------------------------
PipelineDocs ==
  { BaseDoc,
    [BaseDoc EXCEPT !.reference_number = Null, !.invoice_number = Str(<<"L", "9">>),
                    !.total_amount = Str(<<"a", "b", "c">>)] }

Score(c, why) == [confidence |-> c, reasoning |-> why]
UndefinedScore == [undefined |-> TRUE]

\* confidences in hundredths: 9500 is 95, 85 is 0.85
ScoreOutputs ==
  { [field_scores |-> ("vendor_name" :> Score(9500, "clear"))
                      @@ ("reference_number" :> Score(9000, "labeled"))
                      @@ ("total_amount" :> Score(85, "legible")),
     overall_confidence |-> 9200],
    [field_scores |-> ("vendor_name" :> Score(9500, "clear"))
                      @@ ("reference_number" :> Score(9000, "labeled"))
                      @@ ("transaction_date" :> Score(88, "printed"))
                      @@ ("total_amount" :> Score(85, "legible"))
                      @@ ("currency" :> Score(9900, "symbol")),
     overall_confidence |-> 9200],
    [field_scores |-> ("vendor_name" :> Score(9500, "clear"))
                      @@ ("invoice_number" :> Score(80, "labeled")),
     overall_confidence |-> 9000],
    [overall_confidence |-> 9200] }

Unparseable == [parses |-> FALSE, data |-> Null]

UpstreamTexts(f) ==
  {Unparseable}
  \cup {[parses |-> TRUE, data |-> d] :
          d \in IF f = "extract" THEN PipelineDocs ELSE ScoreOutputs}

\* ------------------------------------------------------------------------
\* src/services/claudeService.js: what each function returns once fetch has
\* resolved with response.  completion tells a return from a throw; the
\* cost breakdown (a floating-point ratio) is left out.
\* ------------------------------------------------------------------------
ResponseOk(response) == response.statusCode \in 200..299

extractDocumentData(response) ==
  IF ~ResponseOk(response)
  THEN [completion |-> "return", success |-> FALSE, error |-> response.error,
        errorType |-> "extraction_error", data |-> Null]
  ELSE [completion |-> "return", success |-> TRUE, data |-> response.data,
        cost |-> [input_tokens |-> response.usage.inputTokens,
                  output_tokens |-> response.usage.outputTokens,
                  total_cost |-> response.usage.cost],
        usage |-> response.usage]

LegacyNames == {"invoice_number", "invoice_date", "amount_due", "due_date"}

CanonicalOf(k) ==
  CASE k = "invoice_number" -> "reference_number"
    [] k = "invoice_date" -> "transaction_date"
    [] k = "amount_due" -> "total_amount"
    [] k = "due_date" -> "payment_due_date"

\* scores.k, undefined when the key is missing
ScoreAt(scores, k) == IF k \in DOMAIN scores THEN scores[k] ELSE UndefinedScore

\* { ...scores, invoice_number: scores.reference_number || scores.invoice_number, ... }
mappedScores(scores) ==
  [k \in DOMAIN scores \cup LegacyNames |->
     IF k \in LegacyNames
     THEN (IF CanonicalOf(k) \in DOMAIN scores THEN scores[CanonicalOf(k)]
           ELSE ScoreAt(scores, k))
     ELSE scores[k]]

\* mutant: no catch around the failure paths
scoreExtractedData_Throws(response) ==
  IF ~ResponseOk(response) \/ "field_scores" \notin DOMAIN response.data
  THEN [completion |-> "throw"]
  ELSE [completion |-> "return", success |-> TRUE,
        scores |-> mappedScores(response.data.field_scores),
        cost |-> [input_tokens |-> response.usage.inputTokens,
                  output_tokens |-> response.usage.outputTokens,
                  total_cost |-> response.usage.cost],
        usage |-> response.usage]

scoreExtractedData(response) ==
  IF ~ResponseOk(response)
  THEN [completion |-> "return", success |-> FALSE, error |-> response.error,
        scores |-> Null]
  ELSE IF "field_scores" \notin DOMAIN response.data
  THEN [completion |-> "return", success |-> FALSE,
        error |-> "Cannot read properties of undefined", scores |-> Null]
  ELSE [completion |-> "return", success |-> TRUE,
        scores |-> mappedScores(response.data.field_scores),
        cost |-> [input_tokens |-> response.usage.inputTokens,
                  output_tokens |-> response.usage.outputTokens,
                  total_cost |-> response.usage.cost],
        usage |-> response.usage]

\* ------------------------------------------------------------------------
\* The pipeline run (PipelineOrchestrator, steps 1 to 7) around the two
\* service functions, and raw HTTP requests to the two endpoints
\* ------------------------------------------------------------------------
NotCalled == [completion |-> "none"]
NoResult == [finished |-> FALSE]
NoAdmission == [outcome |-> "none", fn |-> "none",
                seen |-> [date |-> 0, totalCost |-> 0], day |-> 0,
                after |-> [date |-> 0, totalCost |-> 0],
                other |-> [date |-> 0, totalCost |-> 0]]
NoCharge == [happened |-> FALSE, fn |-> "none", pre |-> 0, post |-> 0,
             inputTokens |-> 0, outputTokens |-> 0]

\* run[r]:
\*   pc         "idle", "upstream" (the handler awaits client.messages.create),
\*              "validated" (extracted and validated, before scoring), "done"
\*   kind       "pipeline" or "raw"
\*   fn         the handler serving the run's current request
\*   response   the handler's response
\*   extraction, validation, scoring, result   what the run has produced
\*   upstream   history: how client.messages.create ended for the current
\*              request (resolved or rejected, the error status, whether the
\*              text parsed)
\*   adm, charge, steps   history: the last admission check (the day, the
\*              handler's ledger before and after, the other handler's
\*              ledger), the last usage recording, the steps done
NoUpstream == [outcome |-> "none", status |-> 0, parses |-> TRUE]

IdleRun ==
  [pc |-> "idle", kind |-> "none", fn |-> "none", response |-> NoResponse,
   extraction |-> NotCalled, validation |-> EmptyResults, scoring |-> NotCalled,
   result |-> NoResult, adm |-> NoAdmission, charge |-> NoCharge, steps |-> {},
   upstream |-> NoUpstream]

\* cross[f]: history of the current ledger of handler f (since its reset)
\*   active    the total has reached the limit
\*   pending   the calls that were in flight then and have not returned
\*   first     the cost of the call whose recording reached the limit
\*   reached   the total right after that recording
\*   budget    first plus the costs recorded since by calls out of pending
\*   returned  the upstream calls that have returned to f (the run and the
\*             usage the upstream reported)
NoCross == [active |-> FALSE, pending |-> {}, first |-> 0, reached |-> 0,
            budget |-> 0, returned |-> {}]

\* the history c of a ledger after one more upstream call returned
Returned(c, r, usage) ==
  [c EXCEPT !.returned = @ \cup {[run |-> r, inputTokens |-> usage[1],
                                  outputTokens |-> usage[2]]}]

\* the final result of a run
ExtractionFailed(extraction) ==
  [finished |-> TRUE, success |-> FALSE, data |-> Null,
   validation |-> EmptyResults, scores |-> Null, scoringFailed |-> FALSE,
   failure |-> extraction]

ScoringFailed(extraction, validation, scoring) ==
  [finished |-> TRUE, success |-> TRUE, data |-> extraction.data,
   validation |-> validation, scores |-> Null, scoringFailed |-> TRUE,
   failure |-> scoring]

RunCrashed ==
  [finished |-> TRUE, success |-> FALSE, data |-> Null,
   validation |-> EmptyResults, scores |-> Null, scoringFailed |-> FALSE,
   failure |-> [completion |-> "throw"]]

RunSucceeded(extraction, validation, scoring) ==
  [finished |-> TRUE, success |-> TRUE, data |-> extraction.data,
   validation |-> validation, scores |-> scoring.scores,
   scoringFailed |-> FALSE, failure |-> NotCalled]

\* the response of handler f reaches the caller of run r: a raw request is
\* over; extractDocumentData returns and on success the run validates
\* (step 4); scoreExtractedData returns and the run ends (steps 6 and 7)
Deliver(rn, response) ==
  IF rn.kind = "raw"
  THEN [rn EXCEPT !.pc = "done", !.response = response]
  ELSE IF rn.fn = "extract"
  THEN LET extraction == extractDocumentData(response) IN
       IF extraction.completion = "throw"
       THEN [rn EXCEPT !.pc = "done", !.response = response,
                       !.extraction = extraction, !.result = RunCrashed]
       ELSE IF ~extraction.success
       THEN [rn EXCEPT !.pc = "done", !.response = response,
                       !.extraction = extraction,
                       !.result = ExtractionFailed(extraction)]
       ELSE [rn EXCEPT !.pc = "validated", !.response = response,
                       !.extraction = extraction,
                       !.validation =
                          validateDocumentData(extraction.data, PipelineEnv),
                       !.steps = @ \cup {<<"validate", "local">>}]
  ELSE LET scoring == scoreExtractedData(response) IN
       [rn EXCEPT !.pc = "done", !.response = response, !.scoring = scoring,
                  !.result =
                     IF scoring.completion = "throw" THEN RunCrashed
                     ELSE IF ~scoring.success
                     THEN ScoringFailed(rn.extraction, rn.validation, scoring)
                     ELSE RunSucceeded(rn.extraction, rn.validation, scoring)]

\* a request reaches handler f, which runs to its first await or to its
\* return; a returned response is delivered to the caller
Invoke(r, f, method, body, kind) ==
  LET h == HandlerHead(f, method, body, tracker[f], today)
      awaits == h.response = NoResponse
      rn == [run[r] EXCEPT
               !.kind = kind,
               !.fn = f,
               !.upstream = NoUpstream,
               !.adm = IF h.outcome = "none" THEN @
                       ELSE [outcome |-> h.outcome, fn |-> f,
                             seen |-> tracker[f], day |-> today,
                             after |-> h.tracker,
                             other |-> tracker[CHOOSE g \in Fns : g # f]],
               !.steps = @ \cup {<<"request", f>>}
                           \cup (IF awaits THEN {<<"upstream", f>>} ELSE {})]
  IN /\ tracker' = [tracker EXCEPT ![f] = h.tracker]
     /\ cross' = IF h.tracker.date # tracker[f].date
                 THEN [cross EXCEPT ![f] = NoCross] ELSE cross
     /\ run' = [run EXCEPT ![r] =
                  IF awaits THEN [rn EXCEPT !.pc = "upstream"]
                  ELSE Deliver(rn, h.response)]

\* step 1: the extraction request of a new run reaches the extraction handler
StartRun(r, body) ==
  /\ run[r].pc = "idle"
  /\ Invoke(r, "extract", "POST", body, "pipeline")
  /\ UNCHANGED <<today, valVars, badge>>

\* a request the service functions never send reaches a handler
MalformedRequest(r, f, method, body) ==
  /\ run[r].pc = "idle"
  /\ method # "POST" \/ body = "garbage"
  /\ Invoke(r, f, method, body, "raw")
  /\ UNCHANGED <<today, valVars, badge>>

\* client.messages.create resolves: the handler records the usage and returns
UpstreamResolve(r, usage, text) ==
  /\ run[r].pc = "upstream"
  /\ LET f == run[r].fn
         h == HandlerResume(f, usage[1], usage[2], text, tracker[f])
         pre == tracker[f].totalCost
         post == h.tracker.totalCost
         rn == [run[r] EXCEPT
                  !.charge = [happened |-> TRUE, fn |-> f, pre |-> pre,
                              post |-> post, inputTokens |-> usage[1],
                              outputTokens |-> usage[2]],
                  !.upstream = [outcome |-> "resolved", status |-> 0,
                                parses |-> text.parses],
                  !.steps = @ \cup {<<"record", f>>}]
     IN /\ text \in UpstreamTexts(f)
        /\ tracker' = [tracker EXCEPT ![f] = h.tracker]
        /\ cross' = [cross EXCEPT ![f] = Returned(
             IF ~@.active /\ pre < DAILY_COST_LIMIT /\ post >= DAILY_COST_LIMIT
             THEN [active |-> TRUE,
                   pending |-> {q \in Runs \ {r} :
                                  run[q].pc = "upstream" /\ run[q].fn = f},
                   first |-> post - pre, reached |-> post,
                   budget |-> post - pre, returned |-> @.returned]
             ELSE IF @.active /\ r \in @.pending
             THEN [@ EXCEPT !.pending = @ \ {r}, !.budget = @ + (post - pre)]
             ELSE @, r, usage)]
        /\ run' = [run EXCEPT ![r] = Deliver(rn, h.response)]
  /\ UNCHANGED <<today, valVars, badge>>

\* client.messages.create rejects: the catch block answers
UpstreamReject(r, err) ==
  /\ run[r].pc = "upstream"
  /\ cross' = [cross EXCEPT ![run[r].fn].pending = @ \ {r}]
  /\ run' = [run EXCEPT ![r] =
       Deliver([run[r] EXCEPT !.upstream = [outcome |-> "rejected",
                                            status |-> err.status,
                                            parses |-> TRUE]],
               ErrorResponse(err))]
  /\ UNCHANGED <<today, tracker, valVars, badge>>

\* step 5: the scoring request reaches the scoring handler
StartScoring(r) ==
  /\ run[r].pc = "validated"
  /\ Invoke(r, "score", "POST", "payload", "pipeline")
  /\ UNCHANGED <<today, valVars, badge>>

\* midnight UTC passes
Tick ==
  /\ today < MaxDay
  /\ today' = today + 1
  /\ UNCHANGED <<tracker, run, cross, valVars, badge>>

Methods == {"GET", "POST"}
Bodies == {"payload", "empty", "garbage"}

Init ==
  /\ today = 0
  /\ tracker = [f \in Fns |-> [date |-> 0, totalCost |-> 0]]
  /\ run = [r \in Runs |-> IdleRun]
  /\ cross = [f \in Fns |-> NoCross]
  /\ vpc = "input"
  /\ vdoc = BaseDoc
  /\ venv = PipelineEnv
  /\ vres = EmptyResults
  /\ vsum = NoSummary
  /\ vagain = NotAgain
  /\ badge = NoBadge

Next ==
  \/ \E r \in Runs, body \in {"payload", "empty"} : StartRun(r, body)
  \/ \E r \in Runs, f \in Fns, method \in Methods, body \in Bodies :
        MalformedRequest(r, f, method, body)
  \/ \E r \in Runs, usage \in UsageChoices,
        text \in UpstreamTexts("extract") \cup UpstreamTexts("score") :
        UpstreamResolve(r, usage, text)
  \/ \E r \in Runs, err \in UpstreamErrors : UpstreamReject(r, err)
  \/ \E r \in Runs : StartScoring(r)
  \/ Tick

Spec == Init /\ [][Next]_vars

\* the validation harness on its own
ValInit ==
  /\ today = 0
  /\ tracker = [f \in Fns |-> [date |-> 0, totalCost |-> 0]]
  /\ run = [r \in Runs |-> IdleRun]
  /\ cross = [f \in Fns |-> NoCross]
  /\ vpc = "input"
  /\ vdoc \in Docs
  /\ venv \in Envs
  /\ vres = EmptyResults
  /\ vsum = NoSummary
  /\ vagain = NotAgain
  /\ badge = NoBadge

\* the component is rendered with the confidence it was given
Render ==
  /\ ~badge.rendered
  /\ badge' = ConfidenceBadge(badge.confidence)
  /\ UNCHANGED <<pipeVars, valVars>>

\* the badge on its own
BadgeInit ==
  /\ today = 0
  /\ tracker = [f \in Fns |-> [date |-> 0, totalCost |-> 0]]
  /\ run = [r \in Runs |-> IdleRun]
  /\ cross = [f \in Fns |-> NoCross]
  /\ vpc = "input"
  /\ vdoc = BaseDoc
  /\ venv = PipelineEnv
  /\ vres = EmptyResults
  /\ vsum = NoSummary
  /\ vagain = NotAgain
  /\ badge \in {[NoBadge EXCEPT !.confidence = c] : c \in Confidences}

BadgeNext == Render

BadgeSpec == BadgeInit /\ [][BadgeNext]_vars

ValNext ==
  \/ Validate
  \/ Summarize
  \/ \E now \in NowChoices : Revalidate(now)

ValSpec == ValInit /\ [][ValNext]_vars

\* ------------------------------------------------------------------------
\* Properties
\* ------------------------------------------------------------------------
\* the total the admission check compares: the ledger's total after the
\* day-reset step
EffectiveTotal(ledger, day) == IF ledger.date = day THEN ledger.totalCost ELSE 0

\* C1: the admission check is Denied exactly when, after the day reset, the
\* ledger total is >= the daily limit, and Allowed otherwise; a denial is
\* answered 429 with currentUsage and dailyLimit.
C1_AdmissionAtLimit ==
  \A r \in Runs :
    LET a == run[r].adm
        total == EffectiveTotal(a.seen, a.day)
    IN a.outcome # "none" =>
         /\ a.outcome \in {"Allowed", "Denied"}
         /\ a.outcome = "Denied" <=> total >= DAILY_COST_LIMIT
         /\ a.outcome = "Denied" =>
              /\ run[r].response.statusCode = 429
              /\ run[r].response.currentUsage = total
              /\ run[r].response.dailyLimit = DAILY_COST_LIMIT

\* C1 witness: a check on a ledger standing at exactly the limit, same day
C1_DeniedAtExactLimit ==
  \E r \in Runs :
    /\ run[r].adm.outcome = "Denied"
    /\ run[r].adm.seen.date = run[r].adm.day
    /\ run[r].adm.seen.totalCost = DAILY_COST_LIMIT

\* C2: the recorded total of the current day never exceeds the daily limit.
C2_MaximumSpend ==
  \A f \in Fns : tracker[f].date = today => tracker[f].totalCost <= DAILY_COST_LIMIT

\* C3: concurrent runs can pass the admission check before any of them
\* records usage, so a ledger can exceed the limit; the excess is at most
\* the summed cost of the calls already admitted when the total first
\* reached the limit, and everything recorded after that moment comes from
\* calls that were in flight then.
C3_OvershootBoundedByInFlight ==
  \A f \in Fns :
    tracker[f].totalCost >= DAILY_COST_LIMIT =>
      /\ cross[f].active
      /\ tracker[f].totalCost - DAILY_COST_LIMIT <= cross[f].budget
      /\ tracker[f].totalCost = cross[f].reached + (cross[f].budget - cross[f].first)

\* C3 witness: a ledger over the limit on which a call that was in flight
\* when the limit was reached has recorded its usage afterwards
C3_OvershootByInFlightCall ==
  \E f \in Fns :
    /\ tracker[f].totalCost > DAILY_COST_LIMIT
    /\ cross[f].active
    /\ cross[f].budget > cross[f].first

\* C4: extraction and scoring are gated by one shared ledger: a scoring (or
\* extraction) admission check is Allowed only while the cost recorded that
\* day by both stages together is below the limit.
C4_SharedLedger ==
  \A r \in Runs :
    LET a == run[r].adm IN
    a.outcome = "Allowed" =>
      EffectiveTotal(a.seen, a.day) + EffectiveTotal(a.other, a.day)
        < DAILY_COST_LIMIT

\* C5: an admission check that finds a ledger dated another day replaces it
\* by {date: today, totalCost: 0} before comparing, so the check is Allowed;
\* a ledger dated today is left unchanged by the check.
C5_DayReset ==
  \A r \in Runs :
    LET a == run[r].adm IN
    a.outcome # "none" =>
      /\ a.seen.date # a.day =>
           /\ a.after = [date |-> a.day, totalCost |-> 0]
           /\ a.outcome = "Allowed"
      /\ a.seen.date = a.day => a.after = a.seen

\* C5 witness: the first check of a new day on a ledger that ended the
\* previous day at or above the limit
C5_AllowedAfterFullDay ==
  \E r \in Runs :
    /\ run[r].adm.outcome = "Allowed"
    /\ run[r].adm.seen.date # run[r].adm.day
    /\ run[r].adm.seen.totalCost >= DAILY_COST_LIMIT

\* C6: between two day resets totalCost never decreases; the only decrease
\* is the reset to 0 on a date change.
C6_MonotoneWithinDay ==
  [][\A f \in Fns :
       /\ tracker'[f].date = tracker[f].date =>
            tracker'[f].totalCost >= tracker[f].totalCost
       /\ tracker'[f].totalCost < tracker[f].totalCost =>
            /\ tracker'[f] = [date |-> today, totalCost |-> 0]
            /\ tracker[f].date # today]_vars

\* C6 witness: a ledger that was reset and has grown twice since
C6_GrownAfterReset ==
  \E r \in Runs :
    /\ run[r].charge.happened
    /\ run[r].charge.pre > 0
    /\ run[r].charge.post > run[r].charge.pre
    /\ tracker[run[r].charge.fn].date > 0

C8_DeniedRunReportsUsage ==
  \A r \in Runs :
    (/\ run[r].kind = "pipeline"
     /\ run[r].adm.fn = "extract"
     /\ run[r].adm.outcome = "Denied") =>
      /\ run[r].pc = "done"
      /\ run[r].result.finished /\ ~run[r].result.success
      /\ run[r].steps = {<<"request", "extract">>}
      /\ "currentUsage" \in DOMAIN run[r].result.failure
      /\ "dailyLimit" \in DOMAIN run[r].result.failure

\* the part of C8 the code keeps: the handler answers 429 with currentUsage
\* and dailyLimit and the run ends there, with no upstream call, no usage
\* recording, no validation and no scoring request
DeniedRunStopsAtOnce ==
  \A r \in Runs :
    (/\ run[r].kind = "pipeline"
     /\ run[r].adm.fn = "extract"
     /\ run[r].adm.outcome = "Denied") =>
      /\ run[r].pc = "done"
      /\ run[r].result.finished /\ ~run[r].result.success
      /\ run[r].steps = {<<"request", "extract">>}
      /\ ~run[r].charge.happened
      /\ run[r].validation = EmptyResults
      /\ run[r].response.currentUsage = EffectiveTotal(run[r].adm.seen, run[r].adm.day)
      /\ run[r].response.dailyLimit = DAILY_COST_LIMIT

\* C9: after a successful extraction and validation, a scoring stage that is
\* denied admission or fails leaves a run result that still holds the
\* extracted field set and the validation results, with a scoring-failure
\* indicator; the failure is a returned value (success = false,
\* scores = null), not an exception.
C9_ScoringFailurePreservesRecord ==
  \A r \in Runs :
    (/\ run[r].pc = "done"
     /\ run[r].kind = "pipeline"
     /\ <<"request", "score">> \in run[r].steps
     /\ \/ run[r].response.statusCode # 200
        \/ "field_scores" \notin DOMAIN run[r].response.data) =>
      /\ run[r].scoring.completion = "return"
      /\ run[r].scoring.success = FALSE
      /\ run[r].scoring.scores = Null
      /\ run[r].result.finished
      /\ run[r].result.scoringFailed
      /\ run[r].result.data \in PipelineDocs
      /\ run[r].result.data = run[r].extraction.data
      /\ run[r].result.validation # EmptyResults
      /\ run[r].result.validation = run[r].validation

\* C9 witness: a run that extracted and validated, and was then denied
\* admission to scoring
C9_ScoringDeniedAfterExtraction ==
  \E r \in Runs :
    /\ run[r].pc = "done"
    /\ run[r].adm.fn = "score"
    /\ run[r].adm.outcome = "Denied"
    /\ run[r].extraction.completion = "return"
    /\ run[r].extraction.success
    /\ run[r].result.scoringFailed

\* C10: in the result of validateDocumentData each alias pair has both keys
\* or neither, and both keys hold the identical result.
C10_AliasesIdentical ==
  vpc = "validated" =>
    \A pair \in { <<"reference_number", "invoice_number">>,
                  <<"transaction_date", "invoice_date">>,
                  <<"total_amount", "amount_due">>,
                  <<"payment_due_date", "due_date">> } :
      /\ pair[1] \in DOMAIN vres <=> pair[2] \in DOMAIN vres
      /\ pair[1] \in DOMAIN vres => vres[pair[1]] = vres[pair[2]]

\* C10 witness: an input that carries a canonical key and its legacy key
\* with different values, validated
C10_BothNamesGiven ==
  /\ vpc = "validated"
  /\ ~Falsy(vdoc.reference_number) /\ ~Falsy(vdoc.invoice_number)
  /\ vdoc.reference_number # vdoc.invoice_number
  /\ "due_date" \notin DOMAIN vres
  /\ vres["invoice_number"].valid

\* C11: in every result set of validateDocumentData, a result that carries
\* a warning is valid, and a result carries an error string exactly when it
\* is not valid; so no result carries both an error and a warning.
C11_WarningErrorValid ==
  vpc = "validated" =>
    \A k \in DOMAIN vres :
      /\ "warning" \in DOMAIN vres[k] => vres[k].valid
      /\ ("error" \in DOMAIN vres[k] /\ vres[k].error # <<>>) <=> ~vres[k].valid
      /\ ~("error" \in DOMAIN vres[k] /\ "warning" \in DOMAIN vres[k])

\* C11 witness: a validated set with a warning on one field and an error on
\* another
C11_WarningBesideError ==
  /\ vpc = "validated"
  /\ \E k \in DOMAIN vres : "warning" \in DOMAIN vres[k]
  /\ \E k \in DOMAIN vres : "error" \in DOMAIN vres[k]

\* the decorations an amount string may carry besides its number: currency
\* symbols, thousands-separator commas, whitespace
CurrencySymbols == {"$", "€", "£"}
Decorations(symbols) == symbols \cup {","} \cup WhitespaceChars

\* the string without its decorations
PlainOf(s, symbols) == SelectSeq(s, LAMBDA c : c \notin Decorations(symbols))

\* a plain numeric string: digits with at most one "." between digits
PlainNumeric(p) ==
  /\ p # <<>>
  /\ \A i \in 1..Len(p) : IsDigit(p[i]) \/ p[i] = "."
  /\ Cardinality({i \in 1..Len(p) : p[i] = "."}) <= 1
  /\ IsDigit(p[1]) /\ IsDigit(p[Len(p)])

\* the decorated amount s is accepted with the numeric value of its plain
\* form, and cleaning the cleaned string changes nothing
ParsesAsPlain(s, symbols, result) ==
  LET plainResult == validateAmount(Str(PlainOf(s, symbols)), <<>>) IN
    PlainNumeric(PlainOf(s, symbols)) /\ plainResult.valid =>
      /\ result.valid
      /\ "numericValue" \in DOMAIN result
      /\ result.numericValue = plainResult.numericValue
      /\ RemoveFormatting(RemoveFormatting(s)) = RemoveFormatting(s)

\* C12: a total_amount string made from a plain positive numeric string by
\* adding currency symbols, commas or whitespace is accepted and parses to
\* the numeric value of the plain form; cleaning is idempotent.
C12_DecoratedAmountParsesAsPlain ==
  vpc = "validated" /\ vdoc.total_amount.t = "str" /\ vdoc.line_items = <<>> =>
    ParsesAsPlain(vdoc.total_amount.s, CurrencySymbols, vres["total_amount"])

\* the same with "$" as the only currency symbol
DollarAmountParsesAsPlain ==
  vpc = "validated" /\ vdoc.total_amount.t = "str" /\ vdoc.line_items = <<>> =>
    ParsesAsPlain(vdoc.total_amount.s, {"$"}, vres["total_amount"])

\* a "$"-decorated amount that was validated
DollarAmountValidated ==
  /\ vpc = "validated" /\ vdoc.total_amount.t = "str" /\ vdoc.line_items = <<>>
  /\ \E i \in 1..Len(vdoc.total_amount.s) : vdoc.total_amount.s[i] = "$"
  /\ vres["total_amount"].valid

\* a YYYY-MM-DD string that names a day of the calendar
RealDate(v) ==
  v.t = "str" /\ MatchesDateRegex(v.s) /\ ~NewDate(v, "strict").nan

\* a is a calendar day strictly before b
EarlierDay(a, b) == NewDate(a, "strict").key < NewDate(b, "strict").key

\* C13: payment_due_date is validated only when present; a well-formed due
\* date is an error exactly when it is strictly earlier than the
\* transaction date, so a due date equal to the transaction date is valid;
\* without a transaction date the due-date result is valid with a warning.
C13_DueDateOrder ==
  vpc = "validated" =>
    LET due == OrElse(vdoc.payment_due_date, vdoc.due_date)
        trans == OrElse(vdoc.transaction_date, vdoc.invoice_date)
    IN /\ "payment_due_date" \in DOMAIN vres <=> ~Falsy(due)
       /\ RealDate(due) =>
            /\ Falsy(trans) =>
                 /\ vres["payment_due_date"].valid
                 /\ "warning" \in DOMAIN vres["payment_due_date"]
                 /\ "error" \notin DOMAIN vres["payment_due_date"]
            /\ RealDate(trans) =>
                 /\ vres["payment_due_date"].valid <=> ~EarlierDay(due, trans)
                 /\ "error" \in DOMAIN vres["payment_due_date"]
                      <=> EarlierDay(due, trans)
            /\ (~Falsy(trans) /\ ~MatchesDateRegex(ToStr(trans))) =>
                 vres["payment_due_date"].valid

\* C13 witness: a due date on the transaction date itself, validated
C13_DueOnTransactionDate ==
  /\ vpc = "validated"
  /\ RealDate(vdoc.payment_due_date)
  /\ vdoc.payment_due_date = vdoc.transaction_date
  /\ vres["payment_due_date"].valid
  /\ "error" \notin DOMAIN vres["payment_due_date"]

\* sub occurs in s as a run of consecutive pieces
Contains(s, sub) ==
  \E i \in 0..(Len(s) - Len(sub)) : SubSeq(s, i + 1, i + Len(sub)) = sub

\* the total the document states, cleaned and parsed, in hundredths
StatedTotal(doc) ==
  parseFloat(RemoveFormatting(ToStr(OrElse(doc.total_amount, doc.amount_due))))

\* the document has line items whose amounts all parse and a total that
\* parses to a number > 0
LineItemsComparable(doc) ==
  /\ doc.line_items # <<>>
  /\ ~Falsy(OrElse(doc.total_amount, doc.amount_due))
  /\ ~StatedTotal(doc).nan /\ StatedTotal(doc).n > 0
  /\ ~lineItemTotal(doc.line_items).nan

\* |total - sum of line items|, in hundredths
Mismatch(doc) == Abs(StatedTotal(doc).n - lineItemTotal(doc.line_items).n)

\* the tolerance max(0.01, 0.01 * total), in ten-thousandths
Tolerance(doc) == Max(100, StatedTotal(doc).n)

\* the result is valid and warns, naming the difference to two decimals,
\* exactly when the mismatch exceeds the tolerance
WarnsOnMismatch(doc, result) ==
  /\ result.valid
  /\ "warning" \in DOMAIN result <=> Mismatch(doc) * 100 > Tolerance(doc)
  /\ "warning" \in DOMAIN result =>
        Contains(result.warning, toFixed2(Mismatch(doc)))

\* C14: with line items and a total that parses to a number > 0, the
\* total_amount result stays valid and carries a warning exactly when
\* |total - sum of the line items| > max(0.01, 0.01 * total); the warning
\* names the difference to two decimals.
C14_LineItemTolerance ==
  vpc = "validated" /\ LineItemsComparable(vdoc) =>
    WarnsOnMismatch(vdoc, vres["total_amount"])

\* the same, away from a mismatch equal to the tolerance
LineItemToleranceOffTies ==
  /\ vpc = "validated"
  /\ LineItemsComparable(vdoc)
  /\ Mismatch(vdoc) * 100 # Tolerance(vdoc)
  => WarnsOnMismatch(vdoc, vres["total_amount"])

\* items 10.00 + 5.00: no warning with total 15.00, a warning containing
\* 5.00 with total 20.00
LineItemExamples ==
  /\ vpc = "validated"
  /\ vdoc.line_items = <<[amount |-> Str(<<"1", "0", ".", "0", "0">>)],
                         [amount |-> Str(<<"5", ".", "0", "0">>)]>>
  => /\ vdoc.total_amount = Str(<<"1", "5", ".", "0", "0">>) =>
          "warning" \notin DOMAIN vres["total_amount"]
     /\ vdoc.total_amount = Str(<<"2", "0", ".", "0", "0">>) =>
          /\ "warning" \in DOMAIN vres["total_amount"]
          /\ Contains(vres["total_amount"].warning, <<"5", ".", "0", "0">>)

\* every mismatch equal to the tolerance that is validated is one the table
\* of double roundings decides, with a single line item
TiesWithinTable ==
  /\ vpc = "validated"
  /\ LineItemsComparable(vdoc)
  /\ Mismatch(vdoc) * 100 = Tolerance(vdoc)
  => StatedTotal(vdoc).n \in TieTable /\ Len(vdoc.line_items) = 1

\* a total of 1.00 with one line item of 0.99, validated with a warning
WarnedAtTolerance ==
  /\ vpc = "validated"
  /\ LineItemsComparable(vdoc)
  /\ Mismatch(vdoc) * 100 = Tolerance(vdoc)
  /\ "warning" \in DOMAIN vres["total_amount"]

\* the entries of a result set that carry the field
Carrying(results, field) == {k \in DOMAIN results : field \in DOMAIN results[k]}

\* C15: getValidationSummary returns total = number of entries, valid =
\* entries with valid true, warnings = entries carrying a warning, errors =
\* entries carrying an error, and allValid = true iff errors = 0 whatever
\* the number of warnings; one error and two warnings give allValid = false,
\* errors = 1, warnings = 2.
C15_SummaryCounts ==
  vpc \in {"summarized", "revalidated"} =>
    /\ vsum.total = Cardinality(DOMAIN vres)
    /\ vsum.valid = Cardinality({k \in DOMAIN vres : vres[k].valid})
    /\ vsum.warnings = Cardinality(Carrying(vres, "warning"))
    /\ vsum.errors = Cardinality(Carrying(vres, "error"))
    /\ vsum.allValid <=> Carrying(vres, "error") = {}
    /\ (Cardinality(Carrying(vres, "error")) = 1
        /\ Cardinality(Carrying(vres, "warning")) = 2)
       => ~vsum.allValid /\ vsum.errors = 1 /\ vsum.warnings = 2

\* C15 witness: a summarised set with one error and two warnings
C15_OneErrorTwoWarnings ==
  /\ vpc = "summarized"
  /\ Cardinality(Carrying(vres, "error")) = 1
  /\ Cardinality(Carrying(vres, "warning")) = 2
  /\ ~vsum.allValid

\* the tier of a normalized confidence n given in ten-thousandths:
\* n >= 0.8 High, n >= 0.6 Medium, otherwise Low
TierOf(n) == CASE n >= 8000 -> "High" [] n < 8000 /\ n >= 6000 -> "Medium"
               [] OTHER -> "Low"

\* C16: the display tier is that of the normalized confidence n (n = c/100
\* if c > 1, otherwise n = c) with inclusive lower bounds 0.8 and 0.6, so a
\* 0-100 value c > 1 and the fraction c/100 get the same tier.
C16_TierOfNormalized ==
  badge.rendered =>
    /\ badge.label = TierOf(IF badge.confidence > 100 THEN badge.confidence
                            ELSE 100 * badge.confidence)
    /\ (badge.confidence > 100 /\ badge.confidence <= 10000
        /\ badge.confidence % 100 = 0)
       => badge.label = ConfidenceBadge(badge.confidence \div 100).label
    /\ badge.confidence \in {8500, 85, 8000, 80} => badge.label = "High"
    /\ badge.confidence \in {6000, 60} => badge.label = "Medium"

\* C16 witness: the confidence 80 displayed as High
C16_EightyIsHigh ==
  badge.rendered /\ badge.confidence = 8000 /\ badge.label = "High"

\* C17: two evaluations of validateDocumentData on the same input return
\* equal result sets, whatever the time at which each evaluation runs.
C17_Deterministic ==
  vpc = "revalidated" => vagain.results = vres

\* two evaluations under the same clock are equal, and under different
\* clocks they have the same keys and agree on validity and errors
SameValidityAtAnyTime ==
  vpc = "revalidated" =>
    /\ vagain.env = venv => vagain.results = vres
    /\ DOMAIN vagain.results = DOMAIN vres
    /\ \A k \in DOMAIN vres : vagain.results[k].valid = vres[k].valid
    /\ Carrying(vagain.results, "error") = Carrying(vres, "error")

\* the same input evaluated at two times with different warnings
WarningDependsOnClock ==
  /\ vpc = "revalidated"
  /\ Carrying(vagain.results, "warning") # Carrying(vres, "warning")

\* C18: each AI-calling stage classifies an upstream failure: an upstream
\* 401 becomes authentication_error, an upstream 429 rate_limit_error, and
\* an upstream output that does not parse a malformed-response kind distinct
\* from both and from the kind of a generic failure; none is retried.
C18_FailureKinds ==
  \A r \in Runs :
    /\ (run[r].upstream.outcome = "rejected" /\ run[r].upstream.status = 401)
         => run[r].response.errorType = "authentication_error"
    /\ (run[r].upstream.outcome = "rejected" /\ run[r].upstream.status = 429)
         => run[r].response.errorType = "rate_limit_error"
    /\ (run[r].upstream.outcome = "resolved" /\ ~run[r].upstream.parses)
         => /\ "errorType" \in DOMAIN run[r].response
            /\ run[r].response.errorType \notin
                 {"authentication_error", "rate_limit_error", "server_error"}

\* an upstream 401 and 429 are classified; an output that does not parse
\* and an upstream failure of any other status both become server_error
MalformedIsServerError ==
  \A r \in Runs :
    /\ (run[r].upstream.outcome = "rejected" /\ run[r].upstream.status = 401)
         => run[r].response.errorType = "authentication_error"
    /\ (run[r].upstream.outcome = "rejected" /\ run[r].upstream.status = 429)
         => run[r].response.errorType = "rate_limit_error"
    /\ (run[r].upstream.outcome = "rejected"
        /\ run[r].upstream.status \notin {401, 429})
         => run[r].response.errorType = "server_error"
    /\ (run[r].upstream.outcome = "resolved" /\ ~run[r].upstream.parses)
         => run[r].response.errorType = "server_error"

\* no stage of a run calls the upstream model a second time
NoRetry ==
  [][\A r \in Runs :
       (run'[r].pc = "upstream" /\ run[r].pc # "upstream")
         => <<"upstream", run'[r].fn>> \notin run[r].steps]_vars

\* a scoring output that does not parse, answered after a parsed extraction
MalformedScoringAnswered ==
  \E r \in Runs :
    /\ run[r].fn = "score"
    /\ run[r].upstream.outcome = "resolved" /\ ~run[r].upstream.parses
    /\ run[r].response.statusCode = 500

\* C19: the currency result is valid for every input; an absent currency
\* gives the value "USD" with a warning; a present currency gives its
\* uppercase form as the value in every case, with a warning exactly when
\* the uppercased code is outside the allow-list.
C19_CurrencyUppercased ==
  vpc = "validated" =>
    /\ vres["currency"].valid
    /\ Falsy(vdoc.currency) =>
         /\ vres["currency"].value = Str(<<"U", "S", "D">>)
         /\ "warning" \in DOMAIN vres["currency"]
    /\ ~Falsy(vdoc.currency) =>
         /\ vres["currency"].value = Str(toUpperCase(ToStr(vdoc.currency)))
         /\ "warning" \in DOMAIN vres["currency"]
              <=> toUpperCase(ToStr(vdoc.currency)) \notin validCurrencies

\* the same, except that a code outside the allow-list keeps the case it
\* was given in
UnusualCurrencyKeepsCase ==
  vpc = "validated" =>
    /\ vres["currency"].valid
    /\ Falsy(vdoc.currency) =>
         /\ vres["currency"].value = Str(<<"U", "S", "D">>)
         /\ "warning" \in DOMAIN vres["currency"]
    /\ ~Falsy(vdoc.currency) =>
         /\ "warning" \in DOMAIN vres["currency"]
              <=> toUpperCase(ToStr(vdoc.currency)) \notin validCurrencies
         /\ vres["currency"].value =
              IF toUpperCase(ToStr(vdoc.currency)) \in validCurrencies
              THEN Str(toUpperCase(ToStr(vdoc.currency)))
              ELSE Str(ToStr(vdoc.currency))

\* a lowercase code outside the allow-list, validated
LowercaseUnusualCurrency ==
  /\ vpc = "validated"
  /\ ~Falsy(vdoc.currency)
  /\ toUpperCase(ToStr(vdoc.currency)) \notin validCurrencies
  /\ toUpperCase(ToStr(vdoc.currency)) # ToStr(vdoc.currency)
  /\ "warning" \in DOMAIN vres["currency"]

\* C20: the vendor_name result is valid exactly when the value is present
\* and its whitespace-trimmed length is >= 2; otherwise it is invalid with
\* an error.
C20_VendorTrimmedLength ==
  vpc = "validated" =>
    /\ vres["vendor_name"].valid
         <=> (~Falsy(vdoc.vendor_name)
              /\ Len(Trim(ToStr(vdoc.vendor_name))) >= 2)
    /\ ~vres["vendor_name"].valid => "error" \in DOMAIN vres["vendor_name"]

\* the vendor_name result is valid exactly when the value is present, not
\* blank, and its length before trimming is >= 2
VendorUntrimmedLength ==
  vpc = "validated" =>
    /\ vres["vendor_name"].valid
         <=> (~Falsy(vdoc.vendor_name)
              /\ Len(Trim(ToStr(vdoc.vendor_name))) > 0
              /\ Len(ToStr(vdoc.vendor_name)) >= 2)
    /\ ~vres["vendor_name"].valid => "error" \in DOMAIN vres["vendor_name"]

\* a vendor name of one character after a space, accepted
PaddedVendorAccepted ==
  /\ vpc = "validated"
  /\ vdoc.vendor_name.t = "str"
  /\ Len(Trim(vdoc.vendor_name.s)) = 1
  /\ vres["vendor_name"].valid

\* the reference number the document gives: the canonical field, or the
\* legacy field when the canonical one is absent
GivenReference(doc) ==
  IF doc.reference_number.t = "null" THEN doc.invoice_number
  ELSE doc.reference_number

\* the value coerced to a string is non-empty; whitespace only is empty
NonEmptyAsString(v) == v.t # "null" /\ Len(Trim(ToStr(v))) > 0

\* C21: the reference_number result is valid exactly when the value,
\* coerced to a string, is non-empty (numbers, 0 included, are coerced with
\* toString; whitespace only counts as empty); otherwise it is invalid with
\* the error 'Reference number is required'.
C21_ReferenceNonEmpty ==
  vpc = "validated" =>
    /\ vres["reference_number"].valid <=> NonEmptyAsString(GivenReference(vdoc))
    /\ ~vres["reference_number"].valid =>
         /\ "error" \in DOMAIN vres["reference_number"]
         /\ vres["reference_number"].error = <<"Reference number is required">>

\* the same with a falsy canonical value (the number 0 included) passed
\* over for the legacy field, and a falsy value rejected
ReferenceZeroRejected ==
  vpc = "validated" =>
    /\ vres["reference_number"].valid
         <=> (~Falsy(OrElse(vdoc.reference_number, vdoc.invoice_number))
              /\ NonEmptyAsString(OrElse(vdoc.reference_number,
                                         vdoc.invoice_number)))
    /\ ~vres["reference_number"].valid =>
         /\ "error" \in DOMAIN vres["reference_number"]
         /\ vres["reference_number"].error = <<"Reference number is required">>

\* a document whose only reference number is the number 0, validated
ReferenceZeroValidated ==
  /\ vpc = "validated"
  /\ vdoc.reference_number = Num(0) /\ vdoc.invoice_number = Null
  /\ ~vres["reference_number"].valid


\* the transaction date validateDocumentData is given (canonical or alias)
GivenTransactionDate(doc) == OrElse(doc.transaction_date, doc.invoice_date)

\* the calendar day v lies outside [now - 5 years, now + 2 years]
OutsideTypicalRange(v, now) ==
  \/ NewDate(v, "strict").key < DateKey(NormalizeDate(now.y - 5, now.m, now.d))
  \/ NewDate(v, "strict").key > DateKey(NormalizeDate(now.y + 2, now.m, now.d))

\* what the transaction_date result is said to be for the given value
TransactionDateAsStated(given, now, result) ==
  /\ result.valid <=> RealDate(given)
  /\ ~result.valid => "error" \in DOMAIN result
  /\ RealDate(given) =>
       ("warning" \in DOMAIN result <=> OutsideTypicalRange(given, now))

\* C22: the transaction_date result is valid exactly when the value is a
\* strict YYYY-MM-DD string naming a real calendar date (month 13, day 00
\* and February 30 are errors); a valid date outside [now - 5 years,
\* now + 2 years] carries a warning and stays valid, one inside carries none.
C22_TransactionDate ==
  vpc = "validated" =>
    TransactionDateAsStated(GivenTransactionDate(vdoc), venv.now,
                            vres["transaction_date"])

\* the same on an engine that rejects a day past the end of its month, in
\* the UTC time zone
TransactionDateStrictEngineUTC ==
  (vpc = "validated" /\ venv.engine = "strict" /\ venv.tz = 0) =>
    TransactionDateAsStated(GivenTransactionDate(vdoc), venv.now,
                            vres["transaction_date"])

\* February 30 validated on the engine that rolls it over: reported valid
FebruaryThirtiethAccepted ==
  /\ vpc = "validated" /\ venv.engine = "lenient"
  /\ vdoc.transaction_date = Str(<<"2", "0", "2", "4", "-", "0", "2", "-", "3", "0">>)
  /\ vres["transaction_date"].valid

\* the day now - 5 years validated west of UTC: warned although in range
RangeBoundaryWarned ==
  /\ vpc = "validated" /\ venv.tz < 0 /\ venv.engine = "strict"
  /\ RealDate(vdoc.transaction_date)
  /\ ~OutsideTypicalRange(vdoc.transaction_date, venv.now)
  /\ "warning" \in DOMAIN vres["transaction_date"]


\* run r ended with a ScoreSet returned by scoreExtractedData
Scored(r) ==
  /\ run[r].pc = "done" /\ run[r].kind = "pipeline" /\ run[r].fn = "score"
  /\ run[r].scoring.completion = "return" /\ run[r].scoring.success

\* the name resolves to a score in the score set
Resolves(scores, k) == k \in DOMAIN scores /\ scores[k] # UndefinedScore

\* C23: every confidence in the ScoreSet that scoreExtractedData hands
\* downstream is already on the 0-1 scale (at most 1.00, written 100),
\* whichever scale the scoring endpoint used.
C23_NormalizedAtBoundary ==
  \A r \in Runs :
    Scored(r) =>
      \A k \in DOMAIN run[r].scoring.scores :
        Resolves(run[r].scoring.scores, k) =>
          run[r].scoring.scores[k].confidence <= 100

\* the ScoreSet carries every confidence as the endpoint gave it
ConfidencePassedThrough ==
  \A r \in Runs :
    Scored(r) =>
      \A k \in DOMAIN run[r].response.data.field_scores :
        run[r].scoring.scores[k].confidence
          = run[r].response.data.field_scores[k].confidence

\* a confidence on the 0-100 scale handed downstream as it came
PercentConfidenceHandedDown ==
  \E r \in Runs :
    /\ Scored(r)
    /\ Resolves(run[r].scoring.scores, "vendor_name")
    /\ run[r].scoring.scores["vendor_name"].confidence = 9500


\* the score the endpoint gave for an alias pair: the one under the
\* canonical name, else the one under the legacy name
GivenScore(field_scores, legacy) ==
  IF CanonicalOf(legacy) \in DOMAIN field_scores
  THEN field_scores[CanonicalOf(legacy)]
  ELSE ScoreAt(field_scores, legacy)

\* the names of a score set that resolve to a score
ResolvedNames(scores) == {k \in DOMAIN scores : Resolves(scores, k)}

\* C24: for each alias pair, if field_scores has a score under the
\* canonical or under the legacy name, both names resolve to that same
\* score in the ScoreSet returned by scoreExtractedData, and the names of
\* the ScoreSet are the canonical+alias names of the run's validation
\* results.
C24_ScoresOnAliasSet ==
  \A r \in Runs :
    Scored(r) =>
      /\ \A k \in LegacyNames :
           GivenScore(run[r].response.data.field_scores, k) # UndefinedScore =>
             /\ Resolves(run[r].scoring.scores, k)
             /\ Resolves(run[r].scoring.scores, CanonicalOf(k))
             /\ run[r].scoring.scores[k]
                  = GivenScore(run[r].response.data.field_scores, k)
             /\ run[r].scoring.scores[CanonicalOf(k)]
                  = GivenScore(run[r].response.data.field_scores, k)
      /\ ResolvedNames(run[r].scoring.scores) = DOMAIN run[r].validation

\* what holds: the legacy name resolves to the given score, every name of
\* field_scores keeps its score, and a score under the canonical name is
\* found under both names
LegacyNameResolves ==
  \A r \in Runs :
    Scored(r) =>
      /\ \A k \in LegacyNames :
           /\ run[r].scoring.scores[k]
                = GivenScore(run[r].response.data.field_scores, k)
           /\ CanonicalOf(k) \in DOMAIN run[r].response.data.field_scores =>
                run[r].scoring.scores[CanonicalOf(k)] = run[r].scoring.scores[k]
      /\ \A k \in DOMAIN run[r].response.data.field_scores \ LegacyNames :
           run[r].scoring.scores[k] = run[r].response.data.field_scores[k]

\* a score given under the legacy name only: the canonical name does not
\* resolve
CanonicalNameUnresolved ==
  \E r \in Runs :
    /\ Scored(r)
    /\ Resolves(run[r].scoring.scores, "invoice_number")
    /\ ~Resolves(run[r].scoring.scores, "reference_number")

\* a score for every validated canonical field: the resolved names are the
\* names of the validation results
ScoredOnValidationNames ==
  \E r \in Runs :
    /\ Scored(r)
    /\ ResolvedNames(run[r].scoring.scores) = DOMAIN run[r].validation


\* the sum of the costs of a set of returned upstream calls of handler f
RECURSIVE SumOfCosts(_, _)
SumOfCosts(f, calls) ==
  IF calls = {} THEN 0
  ELSE LET c == CHOOSE x \in calls : TRUE
       IN calculateCost(f, c.inputTokens, c.outputTokens)
            + SumOfCosts(f, calls \ {c})

\* C25: under every interleaving of requests on one function instance, the
\* ledger total is the sum of the costs of all upstream calls that have
\* returned since the last reset: no recording is lost or counted on a
\* stale total.
C25_LedgerIsSumOfReturned ==
  \A f \in Fns : tracker[f].totalCost = SumOfCosts(f, cross[f].returned)

\* C25 witness: two extraction requests admitted on the same empty ledger,
\* both awaiting the upstream at once, have both returned
C25_TwoInFlightBothCounted ==
  \E r, q \in Runs :
    /\ r # q
    /\ run[r].pc = "validated" /\ run[q].pc = "validated"
    /\ run[r].adm.seen = run[q].adm.seen
    /\ run[r].adm.day = today /\ run[q].adm.day = today
    /\ run[r].charge.happened /\ run[q].charge.happened
    /\ Cardinality(cross["extract"].returned) = 2
    /\ tracker["extract"].totalCost
         = (run[r].charge.post - run[r].charge.pre)
             + (run[q].charge.post - run[q].charge.pre)


\* run r takes this step and its handler invocation returns in it
Returns(r) == run'[r] # run[r] /\ run'[r].pc # "upstream"

\* ... before the handler reached client.messages.create
ReturnsFromHead(r) == Returns(r) /\ run[r].pc # "upstream"

\* ... after client.messages.create rejected, or resolved
ReturnsRejected(r) ==
  Returns(r) /\ run[r].pc = "upstream" /\ run'[r].upstream.outcome = "rejected"
ReturnsResolved(r) ==
  Returns(r) /\ run[r].pc = "upstream" /\ run'[r].upstream.outcome = "resolved"

\* the ledgers after the invocation of run r recorded its usage once
ChargedOnce(r) ==
  tracker' = [tracker EXCEPT ![run[r].fn].totalCost =
                @ + calculateCost(run[r].fn, run'[r].charge.inputTokens,
                                  run'[r].charge.outputTokens)]

\* the ledgers after the day check of a request to handler f, nothing else
OnlyDayCheck(f) ==
  tracker' = [tracker EXCEPT ![f] = checkAndResetDailyLimit(tracker[f], today)]

\* a status that only a handler which made no upstream call answers with
NoUpstreamCall(r) ==
  /\ (Returns(r) /\ run'[r].response.statusCode \in {400, 405}) =>
        run[r].pc # "upstream"
  /\ (Returns(r) /\ run[r].pc = "upstream") => run[r].adm.outcome = "Allowed"

\* no ledger total changes in this step
TotalsUnchanged == \A f \in Fns : tracker'[f].totalCost = tracker[f].totalCost

\* C26 as stated: invocations ending as 405, 429 admission denial, 400 or
\* an upstream exception leave every ledger total as it was when the
\* invocation began, and the first three make no upstream call; an
\* upstream call that returns is charged exactly once, also when its text
\* does not parse.
C26_FrameAsStated ==
  [][\A r \in Runs :
       /\ (ReturnsFromHead(r)
           /\ run'[r].response.statusCode \in {400, 405, 429}) =>
             TotalsUnchanged
       /\ NoUpstreamCall(r)
       /\ ReturnsRejected(r) =>
             /\ TotalsUnchanged
             /\ run[r].adm.after.totalCost = run[r].adm.seen.totalCost
       /\ ReturnsResolved(r) => ChargedOnce(r)]_vars

\* C26 amended: the same, except that an invocation ending as 400 or as an
\* upstream exception has first reset the ledger when the stored day was
\* not the current day; 405 and 429 denial leave the ledger untouched.
C26_FrameAfterDayCheck ==
  [][\A r \in Runs :
       /\ (ReturnsFromHead(r)
           /\ run'[r].response.statusCode \in {405, 429}) =>
             tracker' = tracker
       /\ (ReturnsFromHead(r) /\ run'[r].response.statusCode = 400) =>
             OnlyDayCheck(run'[r].fn)
       /\ NoUpstreamCall(r)
       /\ ReturnsRejected(r) =>
             /\ tracker' = tracker
             /\ run[r].adm.after
                  = checkAndResetDailyLimit(run[r].adm.seen, run[r].adm.day)
       /\ ReturnsResolved(r) =>
             /\ ChargedOnce(r)
             /\ run[r].adm.after
                  = checkAndResetDailyLimit(run[r].adm.seen, run[r].adm.day)]_vars

\* C26 witness: an upstream call returned a text that does not parse; the
\* request ended as a server error and the call was charged
C26_UnparseableAnswerCharged ==
  \E r \in Runs :
    /\ run[r].pc = "done"
    /\ run[r].upstream.outcome = "resolved" /\ ~run[r].upstream.parses
    /\ run[r].response.statusCode = 500
    /\ run[r].charge.happened
    /\ run[r].charge.post
         = run[r].charge.pre
             + calculateCost(run[r].fn, run[r].charge.inputTokens,
                             run[r].charge.outputTokens)
    /\ run[r].charge.post > run[r].charge.pre

\* a request without payload arrived on a new day: answered 400, and the
\* ledger it found was reset
MissingPayloadAfterMidnight ==
  \E r \in Runs :
    /\ run[r].pc = "done" /\ run[r].response.statusCode = 400
    /\ run[r].adm.outcome = "Allowed"
    /\ run[r].adm.seen.totalCost > 0 /\ run[r].adm.after.totalCost = 0


\* the validated document's payment_due_date result is valid with no warning
DueDateUnwarnedValid ==
  /\ vpc = "validated"
  /\ "payment_due_date" \in DOMAIN vres
  /\ vres["payment_due_date"].valid
  /\ "warning" \notin DOMAIN vres["payment_due_date"]

\* C27: whenever the payment_due_date result is valid with no warning, the
\* transaction date is itself a real calendar date and the due date is not
\* earlier than it.
C27_DueDateCheckedOrWarned ==
  DueDateUnwarnedValid =>
       /\ vres["transaction_date"].valid
       /\ RealDate(GivenTransactionDate(vdoc))
       /\ ~EarlierDay(OrElse(vdoc.payment_due_date, vdoc.due_date),
                      GivenTransactionDate(vdoc))

\* what holds: an unwarned valid due date has a transaction date that is
\* present, and is not earlier than it when the engine parses both
DueDateCheckedWhenParsed ==
  DueDateUnwarnedValid =>
       /\ ~Falsy(GivenTransactionDate(vdoc))
       /\ ~DateLess(NewDate(OrElse(vdoc.payment_due_date, vdoc.due_date),
                            venv.engine),
                    NewDate(GivenTransactionDate(vdoc), venv.engine))

\* a malformed transaction date beside a due date that passed unwarned
DueDatePassedUnchecked ==
  /\ vpc = "validated"
  /\ vdoc.transaction_date = Str(<<"n", "/", "a">>)
  /\ ~vres["transaction_date"].valid
  /\ "payment_due_date" \in DOMAIN vres
  /\ vres["payment_due_date"].valid
  /\ "warning" \notin DOMAIN vres["payment_due_date"]
  /\ "error" \notin DOMAIN vres["payment_due_date"]


\* the canonical field names among the validation results
CanonicalNames(results) == DOMAIN results \ LegacyNames

\* C28: getValidationSummary on the output of validateDocumentData counts
\* each canonical field once: total is the number of canonical fields
\* validated, and valid, warnings and errors count canonical fields (an
\* invalid reference_number adds 1 to errors).
C28_SummaryCountsCanonical ==
  vpc \in {"summarized", "revalidated"} =>
    /\ vsum.total = Cardinality(CanonicalNames(vres))
    /\ vsum.valid = Cardinality({k \in CanonicalNames(vres) : vres[k].valid})
    /\ vsum.warnings = Cardinality(Carrying(vres, "warning") \ LegacyNames)
    /\ vsum.errors = Cardinality(Carrying(vres, "error") \ LegacyNames)

\* what holds: every aliased field is counted under both of its names
SummaryCountsAliasKeys ==
  vpc \in {"summarized", "revalidated"} =>
    /\ vsum.total = Cardinality(CanonicalNames(vres))
                      + Cardinality(DOMAIN vres \cap LegacyNames)
    /\ vsum.errors = Cardinality(Carrying(vres, "error") \ LegacyNames)
                       + Cardinality(Carrying(vres, "error") \cap LegacyNames)
    /\ \A k \in DOMAIN vres \cap LegacyNames : vres[k] = vres[CanonicalOf(k)]

\* a document whose only invalid field is reference_number, summarised
\* with two errors
InvalidReferenceCountedTwice ==
  /\ vpc = "summarized"
  /\ Carrying(vres, "error") = {"reference_number", "invoice_number"}
  /\ vsum.errors = 2


\* run r has ended on an endpoint failure that carries an errorType
EndpointFailed(r) ==
  /\ run[r].pc = "done" /\ run[r].kind = "pipeline"
  /\ ~ResponseOk(run[r].response)
  /\ "errorType" \in DOMAIN run[r].response

\* what the service function serving the last request of run r returned
ServiceResult(r) ==
  IF run[r].fn = "extract" THEN run[r].extraction ELSE run[r].scoring

\* C29: when the extraction or scoring endpoint answers a failure with an
\* errorType (rate_limit_error, authentication_error, server_error), the
\* result of extractDocumentData / scoreExtractedData has success = false
\* and carries that same errorType; neither function throws.
C29_ErrorTypeCarried ==
  \A r \in Runs :
    EndpointFailed(r) =>
      /\ ServiceResult(r).completion = "return"
      /\ ~ServiceResult(r).success
      /\ "errorType" \in DOMAIN ServiceResult(r)
      /\ ServiceResult(r).errorType = run[r].response.errorType

\* what holds: the function returns, with success = false and the
\* endpoint's error message; extractDocumentData says extraction_error
\* whatever the endpoint's errorType, scoreExtractedData gives none
ErrorTypeDropped ==
  \A r \in Runs :
    EndpointFailed(r) =>
      /\ ServiceResult(r).completion = "return"
      /\ ~ServiceResult(r).success
      /\ ServiceResult(r).error = run[r].response.error
      /\ run[r].fn = "extract" => ServiceResult(r).errorType = "extraction_error"
      /\ run[r].fn = "score" => "errorType" \notin DOMAIN ServiceResult(r)

\* an admission denial (429, rate_limit_error) returned to the caller of
\* extractDocumentData as extraction_error
DenialReportedAsExtractionError ==
  \E r \in Runs :
    /\ EndpointFailed(r) /\ run[r].fn = "extract"
    /\ run[r].response.statusCode = 429
    /\ run[r].response.errorType = "rate_limit_error"
    /\ run[r].extraction.errorType = "extraction_error"

\* an authentication failure of the scoring endpoint returned to the
\* caller of scoreExtractedData without an errorType
ScoringFailureWithoutErrorType ==
  \E r \in Runs :
    /\ EndpointFailed(r) /\ run[r].fn = "score"
    /\ run[r].response.errorType = "authentication_error"
    /\ ~run[r].scoring.success
    /\ "errorType" \notin DOMAIN run[r].scoring

====
